---- MODULE Spec2Model ----
(***************************************************************************)
(* Model of the persistence and caching substrate of Mouse:                *)
(*   - kvs   (src/src/kvs/leveldb/mod.rs)                                   *)
(*   - rdb   (src/src/rdb/sqlite3/mod.rs, resources.rs)                     *)
(*   - cache (src/src/cache/mod.rs)                                         *)
(* Each subsystem has its own specification (SpecKvs, SpecRdb, SpecBalance, *)
(* SpecCache); the variables of the other subsystems stay at their initial  *)
(* value.                                                                   *)
(***************************************************************************)
EXTENDS Integers, Sequences, FiniteSets, TLC

\* ------------------------------------------------------------------------
\* Bounds
\* ------------------------------------------------------------------------
\* number of OS threads calling into the kvs
NKvsThreads == 2
\* total number of insert / update calls in one behaviour
MaxPuts == 2
\* total number of failing leveldb writes in one behaviour
MaxErrors == 1
\* largest value of --max-write-kvs-queries that Init chooses
MaxMwq == 4
\* number of OS threads that open rdb sessions
NRdbThreads == 2
\* number of ResourceIds
NResources == 2
\* largest |delta| passed to update_balance
MaxDelta == 2
\* largest number of entries of one update_balance call
MaxBalances == 2
\* largest balance a row is allowed to reach
MaxBalance == 3
\* number of acids with non-empty intrinsic data
NKvsIds == 1

\* number of OS threads calling into the cache
NCacheThreads == 2
\* number of Ids presented to the cache
NCacheIds == 2
\* number of distinct CAcid objects per Id
NOids == 2
\* largest --cache-size-soft-limit that Init chooses (in entry sizes)
MaxSoftLimit == 3
\* largest number of CAcid handles the callers keep at one time
MaxHeld == 1
\* number of OS threads that allocate through CacheAlloc / hold Crc handles
NAllocThreads == 2
\* number of heap blocks the system allocator can hand out
NBlocks == 2
\* largest usable size (malloc_usable_size) of a block
MaxBlockSize == 2
\* largest number of Crc handles alive at one time
MaxHandles == 3
\* largest byte_size passed to add_usage / sub_usage directly
MaxBytes == 3
\* the usage counter is an AtomicUsize; the model keeps its wrap-around at
\* this modulus
UsageModulus == 16
\* largest height of a ChainIndex
MaxHeight == 3
\* number of Ids of blocks
NChainIds == 3
\* largest number of heights passed to main_chain::fetch
MaxFetch == 2
\* largest limit passed to fetch_asc / fetch_desc
MaxLimit == 3
\* number of Ids of acids
NAcidIds == 2
\* largest number of Ids passed to accept_to_mempool / mempool_to_chain
MaxAcids == 3

KThreads == 1 .. NKvsThreads

\* ------------------------------------------------------------------------
\* State
\* ------------------------------------------------------------------------
VARIABLES
    max_write_queries,  \* Environment.max_write_queries
    db_intrinsic,       \* Db.intrinsic : id -> [val, src]  (val = <<>>: no entry)
    db_extrinsic,       \* Db.extrinsic : id -> [val, src]
    write_batch,        \* Environment.write_batch (the WriteBatch inside the mutex)
    cells,              \* the Asc<Mutex<PutResult>> cells ever created
    batch_lock,         \* owner of Environment.write_batch mutex, 0 = free
    kpc,                \* per thread: position inside PutQuery::new / wait / do_fetch
    wq,                 \* the PutQuery objects created so far
    fq,                 \* the live FetchQuery (owner = 0: none)
    confirmed,          \* history: id -> the acid whose insert wait() reported Ok, no put on id since
    written_int,        \* history: ids whose intrinsic was ever written to Db
    ext_by_batch,       \* history: <<cell, id>> such that the batch of cell wrote extrinsic of id
    wait_panicked,      \* history: PutQuery::wait reached panic!("Never comes here.")
    n_errors            \* history: number of failed leveldb writes

kvs_vars == << max_write_queries, db_intrinsic, db_extrinsic, write_batch, cells,
               batch_lock, kpc, wq, fq, confirmed, written_int, ext_by_batch,
               wait_panicked, n_errors >>

VARIABLES
    session_owner,    \* Environment.session_owner, 0 = None
    rpc,              \* per thread: position inside Sqlite3Session::new / drop
    woken,            \* threads inside Condvar::wait that notify_one has woken
    is_transaction_,  \* Sqlite3Session.is_transaction_ of the live session
    sql_txn,          \* SQLite: << >> in autocommit mode, else <<tables at BEGIN>>
    resources,        \* table resources: ResourceId -> value, one entry per row
    r_last,           \* the last call of new / begin_transaction / commit / rollback and how it ended
    rb_last,          \* the last update_balance / fetch call and what it returned
    rb_applied,       \* history: ResourceId -> sum of the deltas of the calls that returned Ok
    rb_touched,       \* history: ResourceIds that a call that returned Ok changed
    rb_clean          \* history: every update_balance call so far returned Ok

rdb_vars == << session_owner, rpc, woken, is_transaction_, sql_txn, resources,
               r_last, rb_last, rb_applied, rb_touched, rb_clean >>

VARIABLES
    size_soft_limit,  \* cache::Environment.size_soft_limit
    cache_set,        \* Environment.cache: the elements of the LruHashSet
    lru_order,        \* Environment.cache: the LRU list (LRU first, MRU last)
    held,             \* CAcid handles (clones) the callers hold
    cpc,              \* per thread: position inside the eviction loop
    promo,            \* history: the cached Ids in the order of their last promotion
    origin,           \* history: Id -> how its entry was made (not_found / insert)
    c_last            \* the cache call that has just returned and its result

cache_vars == << size_soft_limit, cache_set, lru_order, held, cpc, promo, origin, c_last >>

VARIABLES
    USAGE,         \* cache::usage::USAGE
    heap,          \* the system heap: block -> usable size, 0 = not allocated
    owned,         \* per thread: the blocks it got from CacheAlloc::alloc
    apc,           \* per thread: position inside alloc / dealloc / Crc::drop
    crc_ptr,       \* Crc.ptr of the handles, 0 = no Crc was made
    rc,            \* Bucket.rc
    crc_handles,   \* per thread: the number of Crc handles it holds
    drop_count,    \* history: how often drop_in_place ran on Bucket.elm
    dealloc_count, \* history: how often the Bucket was deallocated
    usage_at_new,  \* history: USAGE when Crc::new was called
    seen,          \* per thread: the payload accesses that happen-before it
    rc_view,       \* the payload accesses released into Bucket.rc
    accessed,      \* history: the threads that accessed the payload
    raced,         \* history: drop_in_place ran unordered with an access
    a_last         \* the call that has just returned and its result

alloc_vars == << USAGE, heap, owned, apc, crc_ptr, rc, crc_handles, drop_count,
                 dealloc_count, usage_at_new, seen, rc_view, accessed, raced,
                 a_last >>

VARIABLES
    main_chain,    \* table main_chain: the set of its rows (height, id)
    mc_last,       \* the last call, when it was one of rdb::main_chain, and what it returned
    acids,         \* table acids: the set of its rows (seq, id, chain_height)
    ac_last        \* the last call, when it was one of rdb::acids, and what it returned

chain_vars == << main_chain, mc_last, acids, ac_last >>

not_kvs_vars == << rdb_vars, cache_vars, alloc_vars, chain_vars >>
not_rdb_vars == << kvs_vars, cache_vars, alloc_vars, chain_vars >>
not_cache_vars == << kvs_vars, rdb_vars, alloc_vars, chain_vars >>
not_alloc_vars == << kvs_vars, rdb_vars, cache_vars, chain_vars >>
not_chain_vars == << kvs_vars, rdb_vars, cache_vars, alloc_vars >>
vars == << kvs_vars, rdb_vars, cache_vars, alloc_vars, chain_vars >>

\* ------------------------------------------------------------------------
\* KVS: data
\* ------------------------------------------------------------------------
\* Ids of the acids presented to the kvs.  Acid EmptyId is the acid whose
\* intrinsic data is the empty byte string.
EmptyId == 0
KIds == 0 .. NKvsIds

\* Acid::intrinsic(): the id is a function of the intrinsic data, so the
\* intrinsic bytes of the acid with a given id are fixed.
Intrinsic(id) == IF id = EmptyId THEN << >> ELSE <<id>>

\* Acid::extrinsic(): mutable, any byte string (possibly empty).
ExtVals == { << >>, <<170>> }

KAcids == [id : KIds, extrinsic : ExtVals]

MaxOf(S) == CHOOSE x \in S : \A y \in S : y <= x

\* mouse_leveldb::write(db, batch): applies the puts of the batch in order;
\* src records the batch (its completion cell) that wrote the entry.
leveldb_write(db, ops, src) ==
    [k \in DOMAIN db |->
        LET idx == {i \in DOMAIN ops : ops[i][1] = k}
        IN  IF idx = {} THEN db[k]
            ELSE [val |-> ops[MaxOf(idx)][2], src |-> src]]

\* mutant of WriteBatch_put: the length counts the entries of both stores
WriteBatch_put_per_store(batch, id, intrinsic, extrinsic) ==
    [batch EXCEPT
        !.intrinsic = IF intrinsic # << >> THEN Append(@, <<id, intrinsic>>) ELSE @,
        !.extrinsic = IF extrinsic # << >> THEN Append(@, <<id, extrinsic>>) ELSE @,
        !.len_ = @ + (IF intrinsic # << >> THEN 1 ELSE 0)
                   + (IF extrinsic # << >> THEN 1 ELSE 0)]

\* WriteBatch::put
WriteBatch_put(batch, id, intrinsic, extrinsic) ==
    LET is_changed == intrinsic # << >> \/ extrinsic # << >>
    IN  [batch EXCEPT
            !.intrinsic = IF intrinsic # << >> THEN Append(@, <<id, intrinsic>>) ELSE @,
            !.extrinsic = IF extrinsic # << >> THEN Append(@, <<id, extrinsic>>) ELSE @,
            !.len_ = IF is_changed THEN @ + 1 ELSE @]

\* mutant of WriteBatch_clear: the completion cell is kept
WriteBatch_clear_keep(cs) ==
    [result |-> Len(cs), intrinsic |-> << >>, extrinsic |-> << >>, len_ |-> 0]

\* WriteBatch::clear: a fresh NotYet cell, empty batches, len_ = 0
WriteBatch_clear(cs) ==
    [result |-> Len(cs) + 1, intrinsic |-> << >>, extrinsic |-> << >>, len_ |-> 0]

\* mutant of flush_first: the intrinsic batch is written first
flush_first_intrinsic(dbi, dbe, batch) ==
    [intrinsic |-> leveldb_write(dbi, batch.intrinsic, batch.result),
     extrinsic |-> dbe]

\* WriteBatch::flush, first write (the extrinsic batch goes first)
flush_first(dbi, dbe, batch) ==
    [intrinsic |-> dbi,
     extrinsic |-> leveldb_write(dbe, batch.extrinsic, batch.result)]

\* WriteBatch::flush, second write (the intrinsic batch)
flush_second(dbi, dbe, batch) ==
    [intrinsic |-> leveldb_write(dbi, batch.intrinsic, batch.result),
     extrinsic |-> dbe]

\* mutant of flush_outcome: set_error is left out
flush_outcome_unset(failed) == IF failed THEN "NotYet" ELSE "Succeeded"

\* WriteBatch::flush: the value it stores into the completion cell
\* (set_error on a failed write, PutResult::Succeeded otherwise)
flush_outcome(failed) == IF failed THEN "Error" ELSE "Succeeded"

\* mutant of MutexGuard_drop: the guard is leaked, the mutex stays locked
MutexGuard_forget(t) == t

\* the guard of env.write_batch goes out of scope: the mutex is free
MutexGuard_drop(t) == 0

\* PutQuery::is_finished
is_finished(cs, c) == cs[c] # "NotYet"

\* the final match of PutQuery::wait
wait_result(cs, c) ==
    CASE cs[c] = "NotYet"    -> "Panic"
      [] cs[c] = "Succeeded" -> "Ok"
      [] OTHER               -> "Err"

\* mutant of put_intrinsic: update passes the intrinsic data as insert does
put_intrinsic_always(kind, id) == Intrinsic(id)

\* kvs::insert passes acid.intrinsic() to PutQuery::new, kvs::update passes &[]
put_intrinsic(kind, id) == IF kind = "insert" THEN Intrinsic(id) ELSE << >>

\* mutant of put_flushes: the comparison is reversed
put_flushes_reversed(batch, mwq) == batch.len_ >= mwq

\* PutQuery::new: the flush condition
put_flushes(batch, mwq) == batch.len_ <= mwq

IdsOf(ops) == {ops[i][1] : i \in DOMAIN ops}

NoFetch == [owner |-> 0, id |-> 0, state |-> "NotYet", intrinsic |-> << >>,
            extrinsic |-> << >>, int_src |-> 0, ext_src |-> 0, expect |-> << >>]

\* a PutQuery that was waited for and dropped
Dropped == [cell |-> 0, acid |-> [id |-> 0, extrinsic |-> << >>], kind |-> "none",
            clean |-> FALSE]


\* PutQuery::wait returns for query q (q = 0: the flush was run by
\* PutQuery::new, nothing returns): the query is dropped afterwards.
WaitReturn(q, wq1, cs) ==
    IF q = 0
    THEN /\ wq' = wq1
         /\ UNCHANGED << confirmed, wait_panicked >>
    ELSE LET r == wait_result(cs, wq1[q].cell)
         IN  /\ wq' = [wq1 EXCEPT ![q] = Dropped]
             /\ wait_panicked' = (wait_panicked \/ r = "Panic")
             /\ confirmed' = IF r = "Ok" /\ wq1[q].kind = "insert" /\ wq1[q].clean
                             THEN [confirmed EXCEPT ![wq1[q].acid.id] = <<wq1[q].acid>>]
                             ELSE confirmed

\* The first half of WriteBatch::flush run by thread t on batch b (the mutex
\* is held by t): either the extrinsic write succeeds and t goes on to the
\* intrinsic write at position next_pc, or it fails: set_error, clear, return.
FlushBegin(t, b, q, next_pc, wq1) ==
    \/ /\ LET d == flush_first(db_intrinsic, db_extrinsic, b)
          IN  /\ db_intrinsic' = d.intrinsic
              /\ db_extrinsic' = d.extrinsic
       /\ ext_by_batch' = ext_by_batch \cup {<<b.result, i>> : i \in IdsOf(b.extrinsic)}
       /\ write_batch' = b
       /\ batch_lock' = t
       /\ kpc' = [kpc EXCEPT ![t] = [pc |-> next_pc, q |-> q]]
       /\ wq' = wq1
       /\ written_int' = written_int \cup
              {i \in KIds : db_intrinsic'[i] # db_intrinsic[i]}
       /\ UNCHANGED << cells, n_errors, wait_panicked >>
    \/ /\ n_errors < MaxErrors
       /\ n_errors' = n_errors + 1
       /\ LET cs == [cells EXCEPT ![b.result] = flush_outcome(TRUE)]
          IN  /\ cells' = Append(cs, "NotYet")
              /\ write_batch' = WriteBatch_clear(cs)
              /\ IF q = 0 THEN wq' = wq1 /\ UNCHANGED wait_panicked
                 ELSE /\ wq' = [wq1 EXCEPT ![q] = Dropped]
                      /\ wait_panicked' =
                           (wait_panicked \/ wait_result(cs, wq1[q].cell) = "Panic")
       /\ batch_lock' = MutexGuard_drop(t)
       /\ kpc' = [kpc EXCEPT ![t] = [pc |-> "idle", q |-> 0]]
       /\ UNCHANGED << db_intrinsic, db_extrinsic, ext_by_batch, written_int >>

\* kvs::insert / kvs::update -> PutQuery::new: lock the batch, put, and
\* flush if the batch length is <= max_write_queries.
Put(t, kind, acid) ==
    /\ kpc[t].pc = "idle"
    /\ batch_lock = 0
    /\ Len(wq) < MaxPuts
    /\ LET intrinsic == put_intrinsic(kind, acid.id)
           b == WriteBatch_put(write_batch, acid.id, intrinsic, acid.extrinsic)
           \* history: a put on an id ends the claim of the earlier puts on the id
           wq0 == [i \in DOMAIN wq |->
                     IF wq[i].acid.id = acid.id THEN [wq[i] EXCEPT !.clean = FALSE]
                     ELSE wq[i]]
           wq1 == Append(wq0, [cell |-> b.result, acid |-> acid, kind |-> kind,
                               clean |-> TRUE])
       IN  /\ fq' = IF fq.id = acid.id THEN [fq EXCEPT !.expect = << >>] ELSE fq
           /\ confirmed' = [confirmed EXCEPT ![acid.id] = << >>]
           /\ IF put_flushes(b, max_write_queries)
              THEN FlushBegin(t, b, 0, "put_flush", wq1)
              ELSE /\ write_batch' = b
                   /\ wq' = wq1
                   /\ UNCHANGED << db_intrinsic, db_extrinsic, cells, batch_lock, kpc,
                                   written_int, ext_by_batch, wait_panicked, n_errors >>
    /\ UNCHANGED max_write_queries
    /\ UNCHANGED not_kvs_vars

\* The second half of WriteBatch::flush: the intrinsic write, the result,
\* clear; then the mutex is released.  A waiting thread reads its result.
FlushEnd(t) ==
    /\ kpc[t].pc \in {"put_flush", "wait_flush"}
    /\ batch_lock = t
    /\ \/ /\ LET d == flush_second(db_intrinsic, db_extrinsic, write_batch)
             IN  /\ db_intrinsic' = d.intrinsic
                 /\ db_extrinsic' = d.extrinsic
          /\ written_int' = written_int \cup
                 {i \in KIds : db_intrinsic'[i] # db_intrinsic[i]}
          /\ LET cs == [cells EXCEPT ![write_batch.result] = flush_outcome(FALSE)]
             IN  /\ cells' = Append(cs, "NotYet")
                 /\ write_batch' = WriteBatch_clear(cs)
                 /\ WaitReturn(kpc[t].q, wq, cs)
          /\ UNCHANGED n_errors
       \/ /\ n_errors < MaxErrors
          /\ n_errors' = n_errors + 1
          /\ LET cs == [cells EXCEPT ![write_batch.result] = flush_outcome(TRUE)]
             IN  /\ cells' = Append(cs, "NotYet")
                 /\ write_batch' = WriteBatch_clear(cs)
                 /\ WaitReturn(kpc[t].q, wq, cs)
          /\ UNCHANGED << db_intrinsic, db_extrinsic, written_int >>
    /\ batch_lock' = MutexGuard_drop(t)
    /\ kpc' = [kpc EXCEPT ![t] = [pc |-> "idle", q |-> 0]]
    /\ UNCHANGED << max_write_queries, fq, ext_by_batch >>
    /\ UNCHANGED not_kvs_vars

\* PutQuery::wait, the first is_finished() test (no lock is held)
WaitCheck(t, i) ==
    /\ kpc[t].pc = "idle"
    /\ i \in DOMAIN wq
    /\ wq[i] # Dropped
    /\ \A u \in KThreads : kpc[u].q # i      \* wait takes &mut self
    \* the query of a put that is still inside PutQuery::new is not returned
    /\ \A u \in KThreads : kpc[u].pc = "put_flush" => i # Len(wq)
    /\ IF is_finished(cells, wq[i].cell)
       THEN /\ WaitReturn(i, wq, cells)
            /\ UNCHANGED kpc
       ELSE /\ kpc' = [kpc EXCEPT ![t] = [pc |-> "wait_lock", q |-> i]]
            /\ UNCHANGED << wq, confirmed, wait_panicked >>
    /\ UNCHANGED << max_write_queries, db_intrinsic, db_extrinsic, write_batch, cells,
                    batch_lock, fq, written_int, ext_by_batch, n_errors >>
    /\ UNCHANGED not_kvs_vars

\* PutQuery::wait: lock the batch, test is_finished() again, flush if not
WaitLock(t) ==
    /\ kpc[t].pc = "wait_lock"
    /\ batch_lock = 0
    /\ LET i == kpc[t].q
       IN  IF is_finished(cells, wq[i].cell)
           THEN /\ WaitReturn(i, wq, cells)
                /\ kpc' = [kpc EXCEPT ![t] = [pc |-> "idle", q |-> 0]]
                /\ UNCHANGED << db_intrinsic, db_extrinsic, write_batch, cells,
                                batch_lock, written_int, ext_by_batch, n_errors >>
           ELSE /\ FlushBegin(t, write_batch, i, "wait_flush", wq)
                /\ UNCHANGED confirmed
    /\ UNCHANGED << max_write_queries, fq >>
    /\ UNCHANGED not_kvs_vars

\* kvs::fetch + FetchQuery::wait -> do_fetch, the read of the intrinsic store
FetchIntrinsic(t, id) ==
    /\ kpc[t].pc = "idle"
    /\ fq.owner = 0
    /\ LET got == db_intrinsic[id]
       IN  IF got.val = << >>
           THEN /\ fq' = [NoFetch EXCEPT !.owner = t, !.id = id, !.state = "NotFound",
                                         !.expect = confirmed[id]]
                /\ kpc' = [kpc EXCEPT ![t] = [pc |-> "fetched", q |-> 0]]
           ELSE /\ fq' = [NoFetch EXCEPT !.owner = t, !.id = id,
                                         !.intrinsic = got.val, !.int_src = got.src,
                                         !.expect = confirmed[id]]
                /\ kpc' = [kpc EXCEPT ![t] = [pc |-> "fetch_ext", q |-> 0]]
    /\ UNCHANGED << max_write_queries, db_intrinsic, db_extrinsic, write_batch, cells,
                    batch_lock, wq, confirmed, written_int, ext_by_batch,
                    wait_panicked, n_errors >>
    /\ UNCHANGED not_kvs_vars

\* do_fetch, the read of the extrinsic store
FetchExtrinsic(t) ==
    /\ kpc[t].pc = "fetch_ext"
    /\ LET got == db_extrinsic[fq.id]
       IN  fq' = [fq EXCEPT !.state = "Found", !.extrinsic = got.val,
                            !.ext_src = got.src]
    /\ kpc' = [kpc EXCEPT ![t] = [pc |-> "fetched", q |-> 0]]
    /\ UNCHANGED << max_write_queries, db_intrinsic, db_extrinsic, write_batch, cells,
                    batch_lock, wq, confirmed, written_int, ext_by_batch,
                    wait_panicked, n_errors >>
    /\ UNCHANGED not_kvs_vars

\* the caller has read the Row and drops the FetchQuery
FetchDrop(t) ==
    /\ kpc[t].pc = "fetched"
    /\ fq' = NoFetch
    /\ kpc' = [kpc EXCEPT ![t] = [pc |-> "idle", q |-> 0]]
    /\ UNCHANGED << max_write_queries, db_intrinsic, db_extrinsic, write_batch, cells,
                    batch_lock, wq, confirmed, written_int, ext_by_batch,
                    wait_panicked, n_errors >>
    /\ UNCHANGED not_kvs_vars

KvsNext ==
    \/ \E t \in KThreads, a \in KAcids : Put(t, "insert", a)
    \/ \E t \in KThreads, a \in KAcids : Put(t, "update", a)
    \/ \E t \in KThreads : FlushEnd(t)
    \/ \E t \in KThreads, i \in 1 .. MaxPuts : WaitCheck(t, i)
    \/ \E t \in KThreads : WaitLock(t)
    \/ \E t \in KThreads, id \in KIds : FetchIntrinsic(t, id)
    \/ \E t \in KThreads : FetchExtrinsic(t)
    \/ \E t \in KThreads : FetchDrop(t)

\* ------------------------------------------------------------------------
\* RDB: sessions (src/src/rdb/sqlite3/mod.rs) and table "resources"
\* (src/src/rdb/sqlite3/resources.rs)
\* ------------------------------------------------------------------------
RThreads == 1 .. NRdbThreads
RIds == 1 .. NResources
Deltas == (0 - MaxDelta) .. MaxDelta
Balances == RIds \X Deltas

OkTable(tbl) == [ok |-> TRUE, changes |-> 1, table |-> tbl]

\* CONSTRAINT value_ CHECK (value >= 0)
check_value(v) == v >= 0

\* mutant of trigger_cleanup: the trigger is missing
trigger_none(tbl, r) == tbl

\* TRIGGER cleanup_resources AFTER UPDATE OF value WHEN NEW.value = 0:
\* DELETE FROM resources WHERE owner = old.owner AND asset_type = old.asset_type
trigger_cleanup(tbl, r) ==
    IF tbl[r] = 0 THEN [x \in DOMAIN tbl \ {r} |-> tbl[x]] ELSE tbl

\* UPDATE resources SET value = value + ?3 WHERE owner = ?1 AND asset_type = ?2
\* (a failing statement changes nothing: conflict resolution ABORT)
sql_update_add(tbl, r, v) ==
    IF r \notin DOMAIN tbl
    THEN [ok |-> TRUE, changes |-> 0, table |-> tbl]
    ELSE IF ~ check_value(tbl[r] + v)
         THEN [ok |-> FALSE, changes |-> 0, table |-> tbl]
         ELSE OkTable(trigger_cleanup([tbl EXCEPT ![r] = tbl[r] + v], r))

\* mutant of sql_upsert: ON CONFLICT DO UPDATE SET value = ?3
sql_upsert_overwrite(tbl, r, v) ==
    IF r \in DOMAIN tbl
    THEN OkTable([tbl EXCEPT ![r] = v])
    ELSE OkTable([x \in DOMAIN tbl \cup {r} |-> IF x = r THEN v ELSE tbl[x]])

\* INSERT INTO resources VALUES(?1, ?2, ?3)
\*     ON CONFLICT (owner, asset_type) DO UPDATE SET value = value + ?3
sql_upsert(tbl, r, v) ==
    IF r \in DOMAIN tbl
    THEN sql_update_add(tbl, r, v)
    ELSE IF ~ check_value(v)
         THEN [ok |-> FALSE, changes |-> 0, table |-> tbl]
         ELSE OkTable([x \in DOMAIN tbl \cup {r} |-> IF x = r THEN v ELSE tbl[x]])

\* mutant of withdraw_no_row: the test of last_changes() is missing
withdraw_no_row_ignored(changes) == FALSE

\* update_balance: "if stmt.last_changes() == 0 { return Err(..) }"
withdraw_no_row(changes) == changes = 0

\* update_balance, the loop "Depositting" from entry i on
RECURSIVE Depositting(_, _, _)
Depositting(tbl, balances, i) ==
    IF i > Len(balances) THEN OkTable(tbl)
    ELSE LET r == balances[i][1]
             value == balances[i][2]
         IN  IF value <= 0 THEN Depositting(tbl, balances, i + 1)
             ELSE LET st == sql_upsert(tbl, r, value)
                  IN  IF ~ st.ok THEN st
                      ELSE Depositting(st.table, balances, i + 1)

\* update_balance, the loop "Withdrawing" from entry i on
RECURSIVE Withdrawing(_, _, _)
Withdrawing(tbl, balances, i) ==
    IF i > Len(balances) THEN OkTable(tbl)
    ELSE LET r == balances[i][1]
             value == balances[i][2]
         IN  IF value >= 0 THEN Withdrawing(tbl, balances, i + 1)
             ELSE LET st == sql_update_add(tbl, r, value)
                  IN  IF ~ st.ok THEN st
                      ELSE IF withdraw_no_row(st.changes)
                           THEN [ok |-> FALSE, changes |-> 0, table |-> st.table]
                           ELSE Withdrawing(st.table, balances, i + 1)

\* mutant of update_balance: a failing call leaves the table as it found it
update_balance_atomic(balances, tbl) ==
    LET d == Depositting(tbl, balances, 1)
        w == IF ~ d.ok THEN d ELSE Withdrawing(d.table, balances, 1)
    IN  IF w.ok THEN w ELSE [w EXCEPT !.table = tbl]

\* resources::update_balance
update_balance(balances, tbl) ==
    LET d == Depositting(tbl, balances, 1)
    IN  IF ~ d.ok THEN d ELSE Withdrawing(d.table, balances, 1)

\* resources::fetch: SELECT value FROM resources WHERE owner = ?1 AND asset_type = ?2
fetch(resource_ids, tbl) ==
    [r \in resource_ids \cap DOMAIN tbl |-> tbl[r]]

\* mutant of wait_again: a woken thread never waits again
wait_again_never(owner) == FALSE

\* Sqlite3Session::new: the loop condition guard.is_some() after Condvar::wait
wait_again(owner) == owner # 0

EmptyTable == [r \in {} |-> 0]
NoCall == [op |-> "none"]

\* threads that hold the session: between "*guard = current_id" in new()
\* and "*guard = None" in drop()
Holding == {t \in RThreads : rpc[t] \in {"acquired", "session", "dropping"}}


\* a call of the session interface and how it ended: "Ok", "Err" or "panic"
Call(op, t, result) == [op |-> op, thread |-> t, result |-> result]

\* mutant of acquire: the owner is not compared with the current thread
acquire_unchecked(owner, t) ==
    IF owner # 0 /\ owner # t THEN "wait" ELSE "own"

\* Sqlite3Session::new, the tests on the guard: guard.is_some(), then
\* *guard == current_id
acquire(owner, t) ==
    IF owner # 0
    THEN IF owner = t THEN "panic" ELSE "wait"
    ELSE "own"

\* Sqlite3Session::new, the block "Acquiring the ownership of the session",
\* called by a thread without a session or by the thread of the live session
NewSession(t) ==
    /\ rpc[t] \in {"none", "session"}
    /\ LET how == acquire(session_owner, t)
       IN  CASE how = "panic" ->
                   \* drop(guard); panic!(..): the guard is released unchanged
                   /\ r_last' = Call("new", t, "panic")
                   /\ UNCHANGED << session_owner, rpc >>
             [] how = "wait" ->
                   \* another thread owns the session: Condvar::wait
                   /\ rpc' = [rpc EXCEPT ![t] = "waiting"]
                   /\ r_last' = NoCall
                   /\ UNCHANGED session_owner
             [] how = "own" ->
                   /\ session_owner' = t
                   /\ rpc' = [rpc EXCEPT ![t] = "acquired"]
                   /\ r_last' = NoCall
    /\ UNCHANGED << woken, is_transaction_, sql_txn, resources, rb_last, rb_applied, rb_touched, rb_clean >>
    /\ UNCHANGED not_rdb_vars

\* Condvar::wait returns (notified, or a spurious wakeup) and the loop tests
\* guard.is_some()
WakeUp(t) ==
    /\ rpc[t] = "waiting"
    /\ woken' = woken \ {t}
    /\ IF wait_again(session_owner)
       THEN UNCHANGED << session_owner, rpc >>
       ELSE /\ session_owner' = t
            /\ rpc' = [rpc EXCEPT ![t] = "acquired"]
    /\ r_last' = NoCall
    /\ UNCHANGED << is_transaction_, sql_txn, resources, rb_last, rb_applied, rb_touched, rb_clean >>
    /\ UNCHANGED not_rdb_vars

\* mutant of do_rollback: the changes of the open transaction are kept
do_rollback_keep(txn, tbl) == tbl

\* do_rollback: ROLLBACK restores the tables of BEGIN; it fails when no
\* transaction is open
do_rollback(txn, tbl) == IF txn = << >> THEN tbl ELSE txn[1]

\* do_begin_transaction, the flag: "self.is_transaction_ = true" is reached
\* only when stmt() and step() passed
do_begin_transaction(ok, flag) == IF ok THEN TRUE ELSE flag

\* mutant of do_commit: the flag is cleared before the statement runs
do_commit_eager(ok, flag) == FALSE

\* do_commit, the flag: "self.is_transaction_ = false" is reached only when
\* stmt() and step() passed
do_commit(ok, flag) == IF ok THEN FALSE ELSE flag

\* Sqlite3Session::new, after the ownership is taken: Self { is_transaction_:
\* false } and "let _ = ret.do_rollback()"
NewSessionEnd(t) ==
    /\ rpc[t] = "acquired"
    /\ resources' = do_rollback(sql_txn, resources)
    /\ sql_txn' = << >>
    /\ is_transaction_' = FALSE
    /\ rpc' = [rpc EXCEPT ![t] = "session"]
    /\ r_last' = Call("new", t, "Ok")
    /\ UNCHANGED << session_owner, woken, rb_last, rb_applied, rb_touched, rb_clean >>
    /\ UNCHANGED not_rdb_vars

\* Session::begin_transaction: assert_eq!(false, is_transaction_), then
\* do_begin_transaction; ok = the statement BEGIN is prepared and stepped
BeginTransaction(t, ok) ==
    /\ rpc[t] = "session"
    /\ IF is_transaction_
       THEN /\ r_last' = Call("begin_transaction", t, "panic")
            /\ UNCHANGED << is_transaction_, sql_txn >>
       ELSE /\ sql_txn' = IF ok THEN <<resources>> ELSE sql_txn
            /\ is_transaction_' = do_begin_transaction(ok, is_transaction_)
            /\ r_last' = Call("begin_transaction", t, IF ok THEN "Ok" ELSE "Err")
    /\ UNCHANGED << session_owner, rpc, woken, resources, rb_last, rb_applied, rb_touched, rb_clean >>
    /\ UNCHANGED not_rdb_vars

\* Session::commit: assert_eq!(true, is_transaction_), then do_commit;
\* ok = the statement COMMIT is prepared and stepped
Commit(t, ok) ==
    /\ rpc[t] = "session"
    /\ IF ~ is_transaction_
       THEN /\ r_last' = Call("commit", t, "panic")
            /\ UNCHANGED << is_transaction_, sql_txn >>
       ELSE /\ sql_txn' = IF ok THEN << >> ELSE sql_txn
            /\ is_transaction_' = do_commit(ok, is_transaction_)
            /\ r_last' = Call("commit", t, IF ok THEN "Ok" ELSE "Err")
    /\ UNCHANGED << session_owner, rpc, woken, resources, rb_last, rb_applied, rb_touched, rb_clean >>
    /\ UNCHANGED not_rdb_vars

\* Session::rollback: assert_eq!(true, is_transaction_), then do_rollback;
\* ok = the statement ROLLBACK is prepared and stepped
Rollback(t, ok) ==
    /\ rpc[t] = "session"
    /\ IF ~ is_transaction_
       THEN /\ r_last' = Call("rollback", t, "panic")
            /\ UNCHANGED << is_transaction_, sql_txn, resources >>
       ELSE /\ resources' = IF ok THEN do_rollback(sql_txn, resources) ELSE resources
            /\ sql_txn' = IF ok THEN << >> ELSE sql_txn
            /\ is_transaction_' = IF ok THEN FALSE ELSE is_transaction_
            /\ r_last' = Call("rollback", t, IF ok THEN "Ok" ELSE "Err")
    /\ UNCHANGED << session_owner, rpc, woken, rb_last, rb_applied, rb_touched, rb_clean >>
    /\ UNCHANGED not_rdb_vars

InRange(tbl) == \A r \in DOMAIN tbl : tbl[r] <= MaxBalance

\* resources::update_balance called on the session of thread t
UpdateBalance(t, balances) ==
    /\ rpc[t] = "session"
    /\ LET res == update_balance(balances, resources)
       IN  /\ InRange(res.table)
           /\ resources' = res.table
    /\ r_last' = NoCall
    /\ UNCHANGED << session_owner, rpc, woken, is_transaction_, sql_txn, rb_last, rb_applied, rb_touched, rb_clean >>
    /\ UNCHANGED not_rdb_vars

\* Drop for Sqlite3Session: "let _ = self.do_rollback()"
DropRollback(t) ==
    /\ rpc[t] = "session"
    /\ resources' = do_rollback(sql_txn, resources)
    /\ sql_txn' = << >>
    /\ is_transaction_' = FALSE
    /\ rpc' = [rpc EXCEPT ![t] = "dropping"]
    /\ r_last' = [op |-> "drop", thread |-> t, open |-> is_transaction_,
                   before |-> resources]
    /\ UNCHANGED << session_owner, woken, rb_last, rb_applied, rb_touched, rb_clean >>
    /\ UNCHANGED not_rdb_vars

\* mutant of notify_one: no thread is notified
notify_none(sleeping) == {{}}

\* Condvar::notify_one: the sets of threads it may wake, one of the threads
\* that sleep in Condvar::wait if there is any
notify_one(sleeping) ==
    IF sleeping = {} THEN {{}} ELSE {{u} : u \in sleeping}

\* Drop for Sqlite3Session: "*guard = None; cond.notify_one()"
DropRelease(t) ==
    /\ rpc[t] = "dropping"
    /\ session_owner' = 0
    /\ rpc' = [rpc EXCEPT ![t] = "none"]
    /\ LET sleeping == {u \in RThreads : rpc[u] = "waiting"} \ woken
       IN  \E n \in notify_one(sleeping) : woken' = woken \cup n
    /\ r_last' = NoCall
    /\ UNCHANGED << is_transaction_, sql_txn, resources, rb_last, rb_applied, rb_touched, rb_clean >>
    /\ UNCHANGED not_rdb_vars

SeqsUpTo(S, n) == UNION {[1 .. k -> S] : k \in 0 .. n}

\* clients that keep the documented preconditions (one session per thread,
\* begin_transaction outside and commit / rollback inside a transaction) on
\* an engine that executes every statement
RdbNext ==
    \/ \E t \in RThreads : rpc[t] = "none" /\ NewSession(t)
    \/ \E t \in RThreads : WakeUp(t)
    \/ \E t \in RThreads : NewSessionEnd(t)
    \/ \E t \in RThreads : ~ is_transaction_ /\ BeginTransaction(t, TRUE)
    \/ \E t \in RThreads : is_transaction_ /\ Commit(t, TRUE)
    \/ \E t \in RThreads : is_transaction_ /\ Rollback(t, TRUE)
    \/ \E t \in RThreads, bs \in SeqsUpTo(Balances, MaxBalances) : UpdateBalance(t, bs)
    \/ \E t \in RThreads : DropRollback(t)
    \/ \E t \in RThreads : DropRelease(t)

\* any client: every call of the session interface in every state, the
\* statements BEGIN / COMMIT / ROLLBACK may fail in the engine, and
\* update_balance is called with one balance
SessionNext ==
    \/ \E t \in RThreads : NewSession(t)
    \/ \E t \in RThreads : WakeUp(t)
    \/ \E t \in RThreads : NewSessionEnd(t)
    \/ \E t \in RThreads, ok \in BOOLEAN : BeginTransaction(t, ok)
    \/ \E t \in RThreads, ok \in BOOLEAN : Commit(t, ok)
    \/ \E t \in RThreads, ok \in BOOLEAN : Rollback(t, ok)
    \/ \E t \in RThreads, b \in Balances : UpdateBalance(t, <<b>>)
    \/ \E t \in RThreads : DropRollback(t)
    \/ \E t \in RThreads : DropRelease(t)

\* ------------------------------------------------------------------------
\* Cache (src/src/cache/mod.rs)
\* ------------------------------------------------------------------------
CThreads == 1 .. NCacheThreads
CIds == 1 .. NCacheIds
Oids == 1 .. NOids

\* the cache memory used by the meta data of the cache system
BaseUsage == 1

\* A CAcid: the object oid of Id id; ext is its extrinsic state
\* (is_traceable).  NotFound(id) is the sentinel.
CObjects == [id : CIds, kind : {"acid"}, oid : Oids, ext : BOOLEAN]
NotFound(id) == [id |-> id, kind |-> "not_found", oid |-> 0, ext |-> FALSE]
Ref(o) == <<o.id, o.oid>>

\* is_not_found
is_not_found(val) == val.kind = "not_found"

\* mutant of acid_merge: the extrinsic state is folded into other, which
\* takes the place of self
acid_merge_into_other(element, other) ==
    IF is_not_found(element) THEN [element EXCEPT !.kind = "panic"]
    ELSE [other EXCEPT !.ext = (@ \/ element.ext)]

\* Acid::merge: folds the extrinsic state of other into self;
\* NotFound::merge panics
acid_merge(element, other) ==
    IF is_not_found(element) THEN [element EXCEPT !.kind = "panic"]
    ELSE [element EXCEPT !.ext = (@ \/ other.ext)]

\* LruHashSet::get
lru_get(set, id) == {o \in set : o.id = id}

\* Entry::to_mru
to_mru(order, ref) == Append(SelectSeq(order, LAMBDA x : x # ref), ref)

\* mutant of insert_op: the sentinel is kept, val is dropped
insert_op_keep(element, val) ==
    IF is_not_found(element) THEN element ELSE acid_merge(element, val)

\* cache::insert, the closure op
insert_op(element, val) ==
    IF is_not_found(element) THEN val ELSE acid_merge(element, val)

\* mutant of not_found_op: the cached element is replaced by the sentinel
not_found_op_replace(element, val) == val

\* cache::not_found, the closure op
not_found_op(element, val) == element

\* mutant of lru_insert_with: the element is inserted without a lookup
lru_insert_blind(set, order, val, op) ==
    [existed |-> FALSE, set |-> set \cup {val}, order |-> Append(order, Ref(val)),
     entry |-> val]

\* LruHashSet::insert_with: inserts val as the MRU element if no element with
\* the same id is stored, otherwise calls op(element, val); op is given as
\* the function element |-> op(element, val)
lru_insert_with(set, order, val, op) ==
    IF lru_get(set, val.id) = {}
    THEN [existed |-> FALSE, set |-> set \cup {val}, order |-> Append(order, Ref(val)),
          entry |-> val]
    ELSE LET e == CHOOSE o \in lru_get(set, val.id) : TRUE
             n == op[e]
         IN  [existed |-> TRUE, set |-> (set \ {e}) \cup {n},
              order |-> [k \in DOMAIN order |-> IF order[k] = Ref(e) THEN Ref(n)
                                                ELSE order[k]],
              entry |-> n]

\* mutant of lru_expire: the last element is spared
lru_expire_spare(set, order) ==
    IF Len(order) <= 1
    THEN [expired |-> FALSE, set |-> set, order |-> order]
    ELSE [expired |-> TRUE, set |-> {o \in set : Ref(o) # Head(order)},
          order |-> Tail(order)]

\* LruHashSet::expire: removes the LRU element if any
lru_expire(set, order) ==
    IF order = << >>
    THEN [expired |-> FALSE, set |-> set, order |-> order]
    ELSE [expired |-> TRUE, set |-> {o \in set : Ref(o) # Head(order)},
          order |-> Tail(order)]

\* cache_using_byte_size: the meta data, the cached elements and the
\* expired elements that a caller still holds
cache_using_byte_size(set, handles) ==
    BaseUsage + Cardinality({Ref(o) : o \in set} \cup handles)

\* mutant of find_mru: find does not touch the LRU order
find_mru_none(order, ref) == order

\* cache::find: "entry.to_mru()"
find_mru(order, ref) == to_mru(order, ref)

\* mutant of find_result: whatever is cached is a Hit
find_result_any(set, id) ==
    IF lru_get(set, id) = {} THEN "Lost" ELSE "Hit"

\* cache::find: the result
find_result(set, id) ==
    IF lru_get(set, id) = {} THEN "Lost"
    ELSE IF is_not_found(CHOOSE o \in lru_get(set, id) : TRUE) THEN "Fault"
         ELSE "Hit"

\* mutant of is_cached_result: the sentinel is reported as Cached
is_cached_result_any(set, id) ==
    IF lru_get(set, id) = {} THEN "Lost" ELSE "Cached"

\* cache::is_cached: the result
is_cached_result(set, id) ==
    IF lru_get(set, id) = {} THEN "Lost"
    ELSE IF is_not_found(CHOOSE o \in lru_get(set, id) : TRUE) THEN "Fault"
         ELSE "Cached"

\* history: the promotion of id
Promote(seq, id) == Append(SelectSeq(seq, LAMBDA x : x # id), id)

\* cache::find
Find(t, id) ==
    /\ cpc[t] = "idle"
    /\ LET found == lru_get(cache_set, id)
       IN  IF found = {}
           THEN UNCHANGED << lru_order, held, promo >>
           ELSE LET entry == CHOOSE o \in found : TRUE
                IN  /\ lru_order' = find_mru(lru_order, Ref(entry))
                    /\ promo' = Promote(promo, id)
                    \* Hit(entry.clone()): the caller keeps or drops the clone
                    /\ \/ UNCHANGED held
                       \/ /\ ~ is_not_found(entry)
                          /\ Cardinality(held \cup {Ref(entry)}) <= MaxHeld
                          /\ held' = held \cup {Ref(entry)}
    /\ c_last' = [op |-> "find", id |-> id, result |-> find_result(cache_set, id),
                  hit |-> {Ref(o) : o \in lru_get(cache_set, id)},
                  before |-> cache_set, origin |-> origin[id]]
    /\ UNCHANGED << size_soft_limit, cache_set, cpc, origin >>
    /\ UNCHANGED not_cache_vars

\* cache::is_cached
IsCached(t, id) ==
    /\ cpc[t] = "idle"
    /\ LET found == lru_get(cache_set, id)
       IN  IF found = {}
           THEN UNCHANGED << lru_order, promo >>
           ELSE /\ lru_order' = to_mru(lru_order, Ref(CHOOSE o \in found : TRUE))
                /\ promo' = Promote(promo, id)
    /\ c_last' = [op |-> "is_cached", id |-> id,
                  result |-> is_cached_result(cache_set, id),
                  hit |-> {Ref(o) : o \in lru_get(cache_set, id)},
                  before |-> cache_set, origin |-> origin[id]]
    /\ UNCHANGED << size_soft_limit, cache_set, held, cpc, origin >>
    /\ UNCHANGED not_cache_vars

\* cache::insert up to the eviction loop
Insert(t, val) ==
    /\ cpc[t] = "idle"
    \* val is a new object
    /\ Ref(val) \notin {Ref(o) : o \in cache_set} \cup held
    /\ LET r == lru_insert_with(cache_set, lru_order, val,
                                [e \in cache_set |-> insert_op(e, val)])
       IN  /\ cache_set' = r.set
           /\ lru_order' = IF r.existed THEN to_mru(r.order, Ref(r.entry)) ELSE r.order
           /\ c_last' = [op |-> "insert", id |-> val.id, existed |-> r.existed,
                         val |-> val]
    /\ origin' = IF origin[val.id] = << >> \/ origin[val.id] = <<"not_found">>
                 THEN [origin EXCEPT ![val.id] =
                         <<"acid", val.oid, origin[val.id] = <<"not_found">> >>]
                 ELSE origin
    /\ promo' = Promote(promo, val.id)
    /\ cpc' = [cpc EXCEPT ![t] = "evict_test"]
    /\ UNCHANGED << size_soft_limit, held >>
    /\ UNCHANGED not_cache_vars

\* cache::not_found up to the eviction loop
NotFoundCall(t, id) ==
    /\ cpc[t] = "idle"
    /\ LET r == lru_insert_with(cache_set, lru_order, NotFound(id),
                                [e \in cache_set |-> not_found_op(e, NotFound(id))])
       IN  /\ cache_set' = r.set
           /\ lru_order' = r.order
           /\ IF r.existed
              THEN UNCHANGED << cpc, promo >>
              ELSE /\ cpc' = [cpc EXCEPT ![t] = "evict_test"]
                   /\ promo' = Promote(promo, id)
           /\ c_last' = [op |-> "not_found", id |-> id, existed |-> r.existed,
                         thread |-> t, before |-> cache_set, order |-> lru_order]
    /\ origin' = IF origin[id] = << >>
                 THEN [origin EXCEPT ![id] = <<"not_found">>]
                 ELSE origin
    /\ UNCHANGED << size_soft_limit, held >>
    /\ UNCHANGED not_cache_vars

\* mutant of evict_continue: the comparison is reversed
evict_continue_reversed(limit, usage) == usage < limit

\* the eviction loop of insert / not_found: the condition
\* "while size_soft_limit < cache_using_byte_size()"
evict_continue(limit, usage) == limit < usage

\* the eviction loop of insert / not_found: the test of the condition
EvictTest(t) ==
    /\ cpc[t] = "evict_test"
    /\ LET usage == cache_using_byte_size(cache_set, held)
       IN  IF evict_continue(size_soft_limit, usage)
           THEN /\ cpc' = [cpc EXCEPT ![t] = "evict_expire"]
                /\ c_last' = NoCall
           ELSE /\ cpc' = [cpc EXCEPT ![t] = "idle"]
                /\ c_last' = [op |-> "evict_exit", thread |-> t, usage |-> usage]
    /\ UNCHANGED << size_soft_limit, cache_set, lru_order, held, promo, origin >>
    /\ UNCHANGED not_cache_vars

\* history: what an expire() call removes
Evicting(r, loop) ==
    /\ cache_set' = r.set
    /\ lru_order' = r.order
    /\ IF r.expired
       THEN LET gone == Head(lru_order)[1]
            IN  /\ c_last' = [op |-> "expire", expired |-> TRUE, id |-> gone,
                              oldest |-> Head(promo), loop |-> loop,
                              real |-> Head(lru_order)[2] # 0]
                /\ promo' = SelectSeq(promo, LAMBDA x : x # gone)
                /\ origin' = [origin EXCEPT ![gone] = << >>]
       ELSE /\ c_last' = [op |-> "expire", expired |-> FALSE, loop |-> loop]
            /\ UNCHANGED << promo, origin >>

\* the eviction loop: "if !cache.expire() { break }"
EvictExpire(t) ==
    /\ cpc[t] = "evict_expire"
    /\ LET r == lru_expire(cache_set, lru_order)
       IN  /\ Evicting(r, TRUE)
           /\ cpc' = [cpc EXCEPT ![t] = IF r.expired THEN "evict_test" ELSE "idle"]
    /\ UNCHANGED << size_soft_limit, held >>
    /\ UNCHANGED not_cache_vars

\* cache::expire
Expire(t) ==
    /\ cpc[t] = "idle"
    /\ Evicting(lru_expire(cache_set, lru_order), FALSE)
    /\ UNCHANGED << size_soft_limit, held, cpc >>
    /\ UNCHANGED not_cache_vars

\* a caller drops a CAcid handle it got from find
DropHandle(h) ==
    /\ h \in held
    /\ held' = held \ {h}
    /\ c_last' = NoCall
    /\ UNCHANGED << size_soft_limit, cache_set, lru_order, cpc, promo, origin >>
    /\ UNCHANGED not_cache_vars

CacheNext ==
    \/ \E t \in CThreads, id \in CIds : Find(t, id)
    \/ \E t \in CThreads, id \in CIds : IsCached(t, id)
    \/ \E t \in CThreads, val \in CObjects : Insert(t, val)
    \/ \E t \in CThreads, id \in CIds : NotFoundCall(t, id)
    \/ \E t \in CThreads : EvictTest(t)
    \/ \E t \in CThreads : EvictExpire(t)
    \/ \E t \in CThreads : Expire(t)
    \/ \E h \in CIds \X Oids : DropHandle(h)

\* ------------------------------------------------------------------------
\* Usage counter, CacheAlloc, Crc (src/src/cache/usage.rs, allocator.rs,
\* crc.rs)
\* ------------------------------------------------------------------------
AThreads == 1 .. NAllocThreads
Blocks == 1 .. NBlocks
BlockSizes == 1 .. MaxBlockSize
Idle == [at |-> "idle", ptr |-> 0, rc |-> 0, crc |-> FALSE]

\* AtomicUsize::fetch_add: the value stored
fetch_add(u, n) == (u + n) % UsageModulus

\* mutant of fetch_sub: the value is added
fetch_sub_adds(u, n) == (u + n) % UsageModulus

\* AtomicUsize::fetch_sub: the value stored
fetch_sub(u, n) == (u - n) % UsageModulus

\* usage
usage(u) == u

\* add_usage: "USAGE.fetch_add(byte_size, Relaxed) + byte_size", the value
\* returned (fetch_add returns the previous value u)
add_usage(u, byte_size) == (u + byte_size) % UsageModulus

\* sub_usage: "USAGE.fetch_sub(byte_size, Relaxed) + byte_size", the value
\* returned (fetch_sub returns the previous value u)
sub_usage(u, byte_size) == (u + byte_size) % UsageModulus

\* allocation_size: malloc_usable_size of the block
allocation_size(h, ptr) == h[ptr]

\* CacheAlloc::alloc / dealloc: "if !ptr.is_null()"
is_null(ptr) == ptr = 0

\* memory orders of the atomic operations on Bucket.rc
clone_order == "Acquire"
drop_order == "Release"
is_acquire(order) == order \in {"Acquire", "AcqRel", "SeqCst"}
is_release(order) == order \in {"Release", "AcqRel", "SeqCst"}

\* mutant of is_last: the test is "rc == 0"
is_last_zero(n) == n = 0

\* Drop for Crc: "if rc == 1"
is_last(n) == n = 1

Sum(f, S) ==
    LET RECURSIVE go(_)
        go(T) == IF T = {} THEN 0
                 ELSE LET x == CHOOSE y \in T : TRUE IN f[x] + go(T \ {x})
    IN  go(S)

TotalHandles == Sum(crc_handles, AThreads)

\* CacheAlloc::alloc, "std::alloc::alloc(layout)": null, or a block that is
\* not allocated, with some usable size.  crc: the call is made by Crc::new.
AllocSys(t, ptr, size, crc) ==
    /\ apc[t] = Idle
    \* one Crc::new in a behaviour
    /\ crc => (crc_ptr = 0 /\ \A u \in AThreads : ~ apc[u].crc)
    /\ IF is_null(ptr)
       THEN \* alloc returns null; Crc::new panics
            /\ a_last' = [op |-> "alloc", ptr |-> 0]
            /\ UNCHANGED << heap, apc, usage_at_new >>
       ELSE /\ heap[ptr] = 0
            /\ heap' = [heap EXCEPT ![ptr] = size]
            /\ apc' = [apc EXCEPT ![t] = [at |-> "alloc_add", ptr |-> ptr, rc |-> 0,
                                          crc |-> crc]]
            /\ usage_at_new' = IF crc THEN USAGE ELSE usage_at_new
            /\ a_last' = NoCall
    /\ UNCHANGED << USAGE, owned, crc_ptr, rc, crc_handles, drop_count, dealloc_count,
                    seen, rc_view, accessed, raced >>
    /\ UNCHANGED not_alloc_vars

\* CacheAlloc::alloc, "add_usage(allocation_size(ptr))" and the return; in
\* Crc::new the Bucket is written with rc = 1
AllocAdd(t) ==
    /\ apc[t].at = "alloc_add"
    /\ USAGE' = fetch_add(USAGE, allocation_size(heap, apc[t].ptr))
    /\ apc' = [apc EXCEPT ![t] = Idle]
    /\ IF apc[t].crc
       THEN /\ crc_ptr' = apc[t].ptr
            /\ rc' = 1
            /\ crc_handles' = [crc_handles EXCEPT ![t] = 1]
            /\ UNCHANGED owned
       ELSE /\ owned' = [owned EXCEPT ![t] = @ \cup {apc[t].ptr}]
            /\ UNCHANGED << crc_ptr, rc, crc_handles >>
    /\ a_last' = [op |-> "alloc", ptr |-> apc[t].ptr]
    /\ UNCHANGED << heap, drop_count, dealloc_count, usage_at_new, seen, rc_view,
                    accessed, raced >>
    /\ UNCHANGED not_alloc_vars

\* CacheAlloc::dealloc, "if !ptr.is_null() { sub_usage(allocation_size(ptr)) }"
DeallocSub(t, ptr) ==
    /\ apc[t] = Idle
    /\ ptr \in owned[t] \cup {0}
    /\ IF is_null(ptr)
       THEN \* std::alloc::dealloc is not modelled for null
            /\ a_last' = [op |-> "dealloc", ptr |-> 0]
            /\ UNCHANGED << USAGE, owned, apc >>
       ELSE /\ USAGE' = fetch_sub(USAGE, allocation_size(heap, ptr))
            /\ owned' = [owned EXCEPT ![t] = @ \ {ptr}]
            /\ apc' = [apc EXCEPT ![t] = [at |-> "dealloc_free", ptr |-> ptr, rc |-> 0,
                                          crc |-> FALSE]]
            /\ a_last' = NoCall
    /\ UNCHANGED << heap, crc_ptr, rc, crc_handles, drop_count, dealloc_count,
                    usage_at_new, seen, rc_view, accessed, raced >>
    /\ UNCHANGED not_alloc_vars

\* CacheAlloc::dealloc, "std::alloc::dealloc(ptr, layout)"
DeallocFree(t) ==
    /\ apc[t].at = "dealloc_free"
    /\ heap' = [heap EXCEPT ![apc[t].ptr] = 0]
    /\ dealloc_count' = IF apc[t].crc THEN dealloc_count + 1 ELSE dealloc_count
    /\ apc' = [apc EXCEPT ![t] = Idle]
    /\ a_last' = [op |-> "dealloc", ptr |-> apc[t].ptr]
    /\ UNCHANGED << USAGE, owned, crc_ptr, rc, crc_handles, drop_count, usage_at_new,
                    seen, rc_view, accessed, raced >>
    /\ UNCHANGED not_alloc_vars

\* Clone for Crc: "bucket.rc.fetch_add(1, Ordering::Acquire)"; the new handle
\* is given to thread u
CrcClone(t, u) ==
    /\ apc[t] = Idle
    /\ crc_handles[t] > 0
    /\ TotalHandles < MaxHandles
    /\ rc' = fetch_add(rc, 1)
    /\ crc_handles' = [crc_handles EXCEPT ![u] = @ + 1]
    /\ LET view == IF is_acquire(clone_order) THEN seen[t] \cup rc_view ELSE seen[t]
       IN  /\ seen' = [seen EXCEPT ![t] = view, ![u] = @ \cup view]
           /\ rc_view' = IF is_release(clone_order) THEN rc_view \cup seen[t]
                         ELSE rc_view
    /\ a_last' = [op |-> "clone", before |-> USAGE]
    /\ UNCHANGED << USAGE, heap, owned, apc, crc_ptr, drop_count, dealloc_count,
                    usage_at_new, accessed, raced >>
    /\ UNCHANGED not_alloc_vars

\* a thread reads the payload through a handle it holds
CrcAccess(t) ==
    /\ apc[t] = Idle
    /\ crc_handles[t] > 0
    /\ t \notin accessed
    /\ accessed' = accessed \cup {t}
    /\ seen' = [seen EXCEPT ![t] = @ \cup {t}]
    /\ a_last' = NoCall
    /\ UNCHANGED << USAGE, heap, owned, apc, crc_ptr, rc, crc_handles, drop_count,
                    dealloc_count, usage_at_new, rc_view, raced >>
    /\ UNCHANGED not_alloc_vars

\* Drop for Crc: "let rc = bucket.rc.fetch_sub(1, Ordering::Release)"
CrcDropDec(t) ==
    /\ apc[t] = Idle
    /\ crc_handles[t] > 0
    /\ rc' = fetch_sub(rc, 1)
    /\ crc_handles' = [crc_handles EXCEPT ![t] = @ - 1]
    /\ apc' = [apc EXCEPT ![t] = [at |-> "drop_test", ptr |-> crc_ptr, rc |-> rc,
                                  crc |-> TRUE]]
    /\ rc_view' = IF is_release(drop_order) THEN rc_view \cup seen[t] ELSE rc_view
    /\ seen' = IF is_acquire(drop_order) THEN [seen EXCEPT ![t] = @ \cup rc_view]
               ELSE seen
    /\ a_last' = NoCall
    /\ UNCHANGED << USAGE, heap, owned, crc_ptr, drop_count, dealloc_count,
                    usage_at_new, accessed, raced >>
    /\ UNCHANGED not_alloc_vars

\* Drop for Crc: "if rc == 1 { drop_in_place(&mut bucket.elm) ..."; there is
\* no fence between the fetch_sub and drop_in_place
CrcDropTest(t) ==
    /\ apc[t].at = "drop_test"
    /\ IF is_last(apc[t].rc)
       THEN /\ drop_count' = drop_count + 1
            /\ raced' = (raced \/ ~ (accessed \subseteq seen[t]))
            /\ apc' = [apc EXCEPT ![t].at = "crc_dealloc"]
            /\ a_last' = NoCall
       ELSE /\ apc' = [apc EXCEPT ![t] = Idle]
            /\ a_last' = [op |-> "drop", last |-> FALSE]
            /\ UNCHANGED << drop_count, raced >>
    /\ UNCHANGED << USAGE, heap, owned, crc_ptr, rc, crc_handles, dealloc_count,
                    usage_at_new, seen, rc_view, accessed >>
    /\ UNCHANGED not_alloc_vars

\* Drop for Crc: "ALLOC.dealloc(self.ptr.as_ptr() as *mut u8, self.layout)",
\* up to sub_usage
CrcDealloc(t) ==
    /\ apc[t].at = "crc_dealloc"
    /\ IF is_null(apc[t].ptr)
       THEN UNCHANGED USAGE
       ELSE USAGE' = fetch_sub(USAGE, allocation_size(heap, apc[t].ptr))
    /\ apc' = [apc EXCEPT ![t].at = "dealloc_free"]
    /\ a_last' = NoCall
    /\ UNCHANGED << heap, owned, crc_ptr, rc, crc_handles, drop_count, dealloc_count,
                    usage_at_new, seen, rc_view, accessed, raced >>
    /\ UNCHANGED not_alloc_vars

\* blocks allocated and deallocated through CacheAlloc
AllocNext ==
    \/ \E t \in AThreads, ptr \in Blocks, size \in BlockSizes :
          AllocSys(t, ptr, size, FALSE)
    \/ \E t \in AThreads : AllocSys(t, 0, 0, FALSE)
    \/ \E t \in AThreads : AllocAdd(t)
    \/ \E t \in AThreads, ptr \in Blocks : DeallocSub(t, ptr)
    \/ \E t \in AThreads : DeallocSub(t, 0)
    \/ \E t \in AThreads : DeallocFree(t)

\* one Crc, its handles cloned and dropped by the threads
CrcNext ==
    \/ \E t \in AThreads, ptr \in Blocks, size \in BlockSizes :
          AllocSys(t, ptr, size, TRUE)
    \/ \E t \in AThreads : AllocSys(t, 0, 0, TRUE)
    \/ \E t \in AThreads : AllocAdd(t)
    \/ \E t, u \in AThreads : CrcClone(t, u)
    \/ \E t \in AThreads : CrcAccess(t)
    \/ \E t \in AThreads : CrcDropDec(t)
    \/ \E t \in AThreads : CrcDropTest(t)
    \/ \E t \in AThreads : CrcDealloc(t)
    \/ \E t \in AThreads : DeallocFree(t)

\* add_usage called directly
UsageAdd(n) ==
    /\ USAGE + n < UsageModulus
    /\ USAGE' = fetch_add(USAGE, n)
    /\ a_last' = [op |-> "add_usage", n |-> n, before |-> USAGE,
                  ret |-> add_usage(USAGE, n)]
    /\ UNCHANGED << heap, owned, apc, crc_ptr, rc, crc_handles, drop_count,
                    dealloc_count, usage_at_new, seen, rc_view, accessed, raced >>
    /\ UNCHANGED not_alloc_vars

\* sub_usage called directly, for bytes that were
\* added before
UsageSub(n) ==
    /\ n <= USAGE
    /\ USAGE' = fetch_sub(USAGE, n)
    /\ a_last' = [op |-> "sub_usage", n |-> n, before |-> USAGE,
                  ret |-> sub_usage(USAGE, n)]
    /\ UNCHANGED << heap, owned, apc, crc_ptr, rc, crc_handles, drop_count,
                    dealloc_count, usage_at_new, seen, rc_view, accessed, raced >>
    /\ UNCHANGED not_alloc_vars

\* usage called directly
UsageRead ==
    /\ a_last.op \in {"add_usage", "sub_usage"}
    /\ a_last' = [op |-> "usage", ret |-> usage(USAGE), prev |-> a_last]
    /\ UNCHANGED << USAGE, heap, owned, apc, crc_ptr, rc, crc_handles, drop_count,
                    dealloc_count, usage_at_new, seen, rc_view, accessed, raced >>
    /\ UNCHANGED not_alloc_vars

UsageNext ==
    \/ \E n \in 0 .. MaxBytes : UsageAdd(n)
    \/ \E n \in 0 .. MaxBytes : UsageSub(n)
    \/ UsageRead

\* ------------------------------------------------------------------------
\* Table main_chain (src/src/rdb/sqlite3/main_chain.rs)
\* ------------------------------------------------------------------------
Heights == 1 .. MaxHeight
ChainIds == 1 .. NChainIds

\* ChainIndex::new: the height is greater than 0 (assert_eq!(true, 0 < height))
ChainIndex_new(height, id) == [height |-> height, id |-> id]

ChainIndexes == {ChainIndex_new(h, i) : h \in Heights, i \in ChainIds}

\* mutant of conflicts: the table has no UNIQUE constraint on id
conflicts_height_only(row, tbl) == \E r \in tbl : r.height = row.height

\* create_table: "height INTEGER PRIMARY KEY, id BLOB UNIQUE NOT NULL"
conflicts(row, tbl) == \E r \in tbl : r.height = row.height \/ r.id = row.id

\* push: INSERT INTO main_chain (height, id) VALUES (?1, ?2)
push(chain_index, tbl) ==
    IF conflicts(chain_index, tbl)
    THEN [ok |-> FALSE, table |-> tbl]
    ELSE [ok |-> TRUE, table |-> tbl \cup {chain_index}]

\* mutant of order_desc: the rows are taken in ascending order
order_desc_reversed(r1, r2) == r1.height <= r2.height

\* "ORDER BY height DESC": r1 comes no later than r2
order_desc(r1, r2) == r1.height >= r2.height

\* "ORDER BY height ASC": r1 comes no later than r2
order_asc(r1, r2) == r1.height <= r2.height

\* the first row of rows in "ORDER BY height DESC"
first_desc(rows) == CHOOSE r \in rows : \A q \in rows : order_desc(r, q)

\* the first row of rows in "ORDER BY height ASC"
first_asc(rows) == CHOOSE r \in rows : \A q \in rows : order_asc(r, q)

\* pop: DELETE FROM main_chain ORDER BY height DESC LIMIT 1
pop(tbl) ==
    IF tbl = {}
    THEN [ok |-> TRUE, table |-> tbl]
    ELSE [ok |-> TRUE, table |-> tbl \ {first_desc(tbl)}]

\* fetch: the loop "for h in heights", one SELECT id FROM main_chain WHERE
\* height = ?1 per height, ret.insert(h, id) when it yields a row
RECURSIVE fetch_heights(_, _, _)
fetch_heights(heights, tbl, ret) ==
    IF heights = << >>
    THEN ret
    ELSE LET h == Head(heights)
             rows == {r \in tbl : r.height = h}
         IN  IF rows = {}
             THEN fetch_heights(Tail(heights), tbl, ret)
             ELSE fetch_heights(Tail(heights), tbl,
                      [k \in DOMAIN ret \cup {h} |->
                          IF k = h THEN (CHOOSE r \in rows : TRUE).id ELSE ret[k]])

\* the empty BTreeMap / HashMap
EmptyMap == [k \in {} |-> 0]

\* mutant of where_asc: the row of min_height itself is left out
where_asc_exclusive(r, min_height) == r.height > min_height

\* fetch_asc: "WHERE height >= ?1"
where_asc(r, min_height) == r.height >= min_height

\* fetch_desc: "WHERE height <= ?1"
where_desc(r, max_height) == r.height <= max_height

\* fetch_asc, the statement with "ORDER BY height ASC LIMIT ?2" and the loop
\* "while stmt.step()? { ret.push(..) }"
RECURSIVE select_asc(_, _)
select_asc(rows, limit) ==
    IF rows = {} \/ limit = 0
    THEN << >>
    ELSE LET r == first_asc(rows)
         IN  <<ChainIndex_new(r.height, r.id)>> \o select_asc(rows \ {r}, limit - 1)

\* fetch_desc, the statement with "ORDER BY height DESC LIMIT ?2" and the
\* loop "while stmt.step()? { ret.push(..) }"
RECURSIVE select_desc(_, _)
select_desc(rows, limit) ==
    IF rows = {} \/ limit = 0
    THEN << >>
    ELSE LET r == first_desc(rows)
         IN  <<ChainIndex_new(r.height, r.id)>> \o select_desc(rows \ {r}, limit - 1)

fetch_asc(min_height, limit, tbl) ==
    select_asc({r \in tbl : where_asc(r, min_height)}, limit)

fetch_desc(max_height, limit, tbl) ==
    select_desc({r \in tbl : where_desc(r, max_height)}, limit)

\* main_chain::push called on a master session
Push(chain_index) ==
    /\ LET res == push(chain_index, main_chain)
       IN  /\ main_chain' = res.table
           /\ mc_last' = [op |-> "push", chain_index |-> chain_index,
                          before |-> main_chain, ok |-> res.ok,
                          after_pop |-> IF mc_last.op = "pop"
                                        THEN mc_last.before ELSE {}]
    /\ ac_last' = NoCall
    /\ UNCHANGED acids
    /\ UNCHANGED not_chain_vars

\* main_chain::pop called on a master session
Pop ==
    /\ LET res == pop(main_chain)
       IN  /\ main_chain' = res.table
           /\ mc_last' = [op |-> "pop", before |-> main_chain, ok |-> res.ok]
    /\ ac_last' = NoCall
    /\ UNCHANGED acids
    /\ UNCHANGED not_chain_vars

\* main_chain::fetch called on a slave session
Fetch(heights) ==
    /\ mc_last' = [op |-> "fetch", heights |-> heights,
                   result |-> fetch_heights(heights, main_chain, EmptyMap)]
    /\ ac_last' = NoCall
    /\ UNCHANGED << main_chain, acids >>
    /\ UNCHANGED not_chain_vars

\* main_chain::fetch_asc called on a slave session
FetchAsc(min_height, limit) ==
    /\ mc_last' = [op |-> "fetch_asc", height |-> min_height, limit |-> limit,
                   result |-> fetch_asc(min_height, limit, main_chain)]
    /\ ac_last' = NoCall
    /\ UNCHANGED << main_chain, acids >>
    /\ UNCHANGED not_chain_vars

\* main_chain::fetch_desc called on a slave session
FetchDesc(max_height, limit) ==
    /\ mc_last' = [op |-> "fetch_desc", height |-> max_height, limit |-> limit,
                   result |-> fetch_desc(max_height, limit, main_chain)]
    /\ ac_last' = NoCall
    /\ UNCHANGED << main_chain, acids >>
    /\ UNCHANGED not_chain_vars

\* the heights a caller asks for: BlockHeight is an i64, not only heights of
\* a ChainIndex
AnyHeights == (0 - 1) .. (MaxHeight + 1)

MainChainNext ==
    \/ \E c \in ChainIndexes : Push(c)
    \/ Pop
    \/ \E hs \in SeqsUpTo(AnyHeights, MaxFetch) : Fetch(hs)
    \/ \E h \in AnyHeights, l \in 0 .. MaxLimit : FetchAsc(h, l)
    \/ \E h \in AnyHeights, l \in 0 .. MaxLimit : FetchDesc(h, l)

\* ------------------------------------------------------------------------
\* Table acids (src/src/rdb/sqlite3/acids.rs)
\* ------------------------------------------------------------------------
AcidIds == 1 .. NAcidIds

\* chain_height NULL: the acid is in mempool
NULL == 0

\* "seq INTEGER PRIMARY KEY" of a row inserted without seq: one more than the
\* greatest seq of the table
next_seq(tbl) == IF tbl = {} THEN 1 ELSE MaxOf({r.seq : r \in tbl}) + 1

\* mutant of insert_ignore: the row of a known id is replaced by a new one
insert_replace(tbl, id) ==
    LET rest == {r \in tbl : r.id # id}
    IN  rest \cup {[seq |-> next_seq(tbl), id |-> id, chain_height |-> NULL]}

\* accept_to_mempool: INSERT INTO acids (id) VALUES (?1) ON CONFLICT DO
\* NOTHING, with "id BLOB UNIQUE NOT NULL, chain_height INTEGER DEFAULT NULL"
insert_ignore(tbl, id) ==
    IF \E r \in tbl : r.id = id
    THEN tbl
    ELSE tbl \cup {[seq |-> next_seq(tbl), id |-> id, chain_height |-> NULL]}

\* accept_to_mempool: the loop "for id in acids"
RECURSIVE accept_to_mempool(_, _)
accept_to_mempool(ids, tbl) ==
    IF ids = << >>
    THEN tbl
    ELSE accept_to_mempool(Tail(ids), insert_ignore(tbl, Head(ids)))

\* mutant of in_mempool: the statement has no "AND chain_height IS NULL"
in_mempool_any(r) == TRUE

\* mempool_to_chain: "AND chain_height IS NULL"
in_mempool(r) == r.chain_height = NULL

\* mempool_to_chain: UPDATE acids SET chain_height = ?1 WHERE id = ?2 AND
\* chain_height IS NULL
update_chain_height(tbl, height, id) ==
    [r \in tbl |-> IF r.id = id /\ in_mempool(r)
                   THEN [r EXCEPT !.chain_height = height]
                   ELSE r]

\* Stmt::last_changes after the step of an UPDATE: the number of rows the
\* statement matched (sqlite3_changes)
last_changes(tbl, id) == Cardinality({r \in tbl : r.id = id /\ in_mempool(r)})

\* mempool_to_chain: the loop "for id in acids" with "ret +=
\* stmt.last_changes()"
RECURSIVE mempool_to_chain(_, _, _, _)
mempool_to_chain(height, ids, tbl, ret) ==
    IF ids = << >>
    THEN [table |-> tbl, ret |-> ret]
    ELSE LET upd == update_chain_height(tbl, height, Head(ids))
         IN  mempool_to_chain(height, Tail(ids),
                              {upd[r] : r \in tbl},
                              ret + last_changes(tbl, Head(ids)))

\* acids::accept_to_mempool called on a master session
AcceptToMempool(ids) ==
    /\ acids' = accept_to_mempool(ids, acids)
    /\ ac_last' = [op |-> "accept_to_mempool", ids |-> ids, before |-> acids,
                   first |-> IF ac_last.op = "accept_to_mempool" /\ ac_last.ids = ids
                             THEN <<ac_last.before>> ELSE << >>]
    /\ mc_last' = NoCall
    /\ UNCHANGED main_chain
    /\ UNCHANGED not_chain_vars

\* acids::mempool_to_chain called on a master session
MempoolToChain(chain_index, ids) ==
    /\ LET res == mempool_to_chain(chain_index.height, ids, acids, 0)
       IN  /\ acids' = res.table
           /\ ac_last' = [op |-> "mempool_to_chain", chain_index |-> chain_index,
                          ids |-> ids, before |-> acids, result |-> res.ret]
    /\ mc_last' = NoCall
    /\ UNCHANGED main_chain
    /\ UNCHANGED not_chain_vars

\* mutant of on_chain_at: every acid of a chain is taken, whatever its height
on_chain_at_any(r, height) == r.chain_height # NULL

\* chain_to_mempool: "WHERE chain_height = ?1"
on_chain_at(r, height) == r.chain_height = height

\* chain_to_mempool: UPDATE acids SET chain_height = NULL WHERE chain_height
\* = ?1, and "Ok(stmt.last_changes())"
chain_to_mempool(height, tbl) ==
    [table |-> {IF on_chain_at(r, height)
                THEN [r EXCEPT !.chain_height = NULL] ELSE r : r \in tbl},
     ret |-> Cardinality({r \in tbl : on_chain_at(r, height)})]

\* Option: None and Some(val)
None == [some |-> FALSE]

Some(val) == [some |-> TRUE, val |-> val]

\* mutant of left_outer_join: an acid without a row of main_chain at its
\* chain_height yields no row
inner_join(r, chain) ==
    {[chain_height |-> r.chain_height, id |-> m.id] :
        m \in {m \in chain : r.chain_height # NULL /\ m.height = r.chain_height}}

\* fetch_state: "FROM acids LEFT OUTER JOIN main_chain ON acids.chain_height
\* = main_chain.height", the columns acids.chain_height and main_chain.id of
\* the rows made from the acids row r (NULL = NULL is not true in SQL)
left_outer_join(r, chain) ==
    LET matches == {m \in chain : r.chain_height # NULL /\ m.height = r.chain_height}
    IN  IF matches = {}
        THEN {[chain_height |-> r.chain_height, id |-> NULL]}
        ELSE {[chain_height |-> r.chain_height, id |-> m.id] : m \in matches}

\* fetch_state: the loop "for id in acids"; the first row of the statement
\* gives None when its column main_chain.id is NULL and otherwise
\* Some(ChainIndex::new(height, id_))
RECURSIVE fetch_state(_, _, _, _)
fetch_state(ids, tbl, chain, ret) ==
    IF ids = << >>
    THEN ret
    ELSE LET id == Head(ids)
             rows == UNION {left_outer_join(r, chain) : r \in {r \in tbl : r.id = id}}
         IN  IF rows = {}
             THEN fetch_state(Tail(ids), tbl, chain, ret)
             ELSE LET row == CHOOSE x \in rows : TRUE
                      val == IF row.id = NULL
                             THEN None
                             ELSE Some(ChainIndex_new(row.chain_height, row.id))
                  IN  fetch_state(Tail(ids), tbl, chain,
                          [k \in DOMAIN ret \cup {id} |->
                              IF k = id THEN val ELSE ret[k]])

\* Option::unwrap_or
unwrap_or(opt, default) == IF opt.some THEN opt.val ELSE default

\* mutant of where_seq: the row of min_seq itself is left out
where_seq_exclusive(r, min_seq) == r.seq > min_seq

\* fetch_mempool: "seq >= ?1"
where_seq(r, min_seq) == r.seq >= min_seq

\* fetch_mempool, the statement with "ORDER BY seq ASC LIMIT ?2" and the loop
\* "while stmt.step()? { ret.push((seq, id)) }"
RECURSIVE select_seq(_, _)
select_seq(rows, limit) ==
    IF rows = {} \/ limit = 0
    THEN << >>
    ELSE LET r == CHOOSE x \in rows : \A q \in rows : x.seq <= q.seq
         IN  << <<r.seq, r.id>> >> \o select_seq(rows \ {r}, limit - 1)

\* fetch_mempool: "WHERE chain_height IS NULL AND seq >= ?1" with
\* min_seq.unwrap_or(0)
fetch_mempool(min_seq, limit, tbl) ==
    select_seq({r \in tbl : in_mempool(r) /\ where_seq(r, unwrap_or(min_seq, 0))},
               limit)

\* acids::chain_to_mempool called on a master session
ChainToMempool(chain_index) ==
    /\ LET res == chain_to_mempool(chain_index.height, acids)
       IN  /\ acids' = res.table
           /\ ac_last' = [op |-> "chain_to_mempool", chain_index |-> chain_index,
                          before |-> acids, result |-> res.ret,
                          promoted |-> IF ac_last.op = "mempool_to_chain"
                                          /\ ac_last.chain_index = chain_index
                                       THEN <<ac_last.before>> ELSE << >>]
    /\ mc_last' = NoCall
    /\ UNCHANGED main_chain
    /\ UNCHANGED not_chain_vars

\* acids::fetch_state called on a slave session
FetchState(ids) ==
    /\ ac_last' = [op |-> "fetch_state", ids |-> ids,
                   result |-> fetch_state(ids, acids, main_chain, EmptyMap),
                   returned |-> IF ac_last.op = "chain_to_mempool"
                                   /\ ac_last.promoted # << >>
                                THEN {r.id : r \in {r \in ac_last.before :
                                         r \notin ac_last.promoted[1]}}
                                ELSE {}]
    /\ mc_last' = NoCall
    /\ UNCHANGED << main_chain, acids >>
    /\ UNCHANGED not_chain_vars

\* the pages a caller has read: the call starts over with min_seq = None, or
\* goes on where the last call ended, with min_seq = last returned seq + 1
Pages(min_seq, limit, result) ==
    IF ~ min_seq.some
    THEN <<result>>
    ELSE IF /\ ac_last.op = "fetch_mempool"
            /\ ac_last.pages # << >>
            /\ ac_last.limit = limit
            /\ ac_last.result # << >>
            /\ min_seq.val = ac_last.result[Len(ac_last.result)][1] + 1
         THEN <<ac_last.pages[1] \o result>>
         ELSE << >>

\* acids::fetch_mempool called on a slave session
FetchMempool(min_seq, limit) ==
    /\ LET result == fetch_mempool(min_seq, limit, acids)
       IN  ac_last' = [op |-> "fetch_mempool", min_seq |-> min_seq,
                       limit |-> limit, result |-> result,
                       pages |-> Pages(min_seq, limit, result)]
    /\ mc_last' = NoCall
    /\ UNCHANGED << main_chain, acids >>
    /\ UNCHANGED not_chain_vars

\* the values of min_seq a caller passes
MinSeqs == {None} \cup {Some(n) : n \in 0 .. (NAcidIds + 1)}

AcidsNext ==
    \/ \E ids \in SeqsUpTo(AcidIds, MaxAcids) : AcceptToMempool(ids)
    \/ \E h \in Heights, ids \in SeqsUpTo(AcidIds, MaxAcids) :
          MempoolToChain(ChainIndex_new(h, 1), ids)
    \/ \E h \in Heights : ChainToMempool(ChainIndex_new(h, 1))
    \/ \E m \in MinSeqs, l \in 0 .. MaxLimit : FetchMempool(m, l)

\* the Id of the block that a caller pushes at height h
BlockId(h) == ((h - 1) % NChainIds) + 1

\* the calls of rdb::acids together with push and pop of rdb::main_chain:
\* one block per height, and the writing calls take at most one Id
ChainStateNext ==
    \/ \E ids \in SeqsUpTo(AcidIds, 1) : AcceptToMempool(ids)
    \/ \E h \in Heights, ids \in SeqsUpTo(AcidIds, 1) :
          MempoolToChain(ChainIndex_new(h, 1), ids)
    \/ \E h \in Heights : ChainToMempool(ChainIndex_new(h, 1))
    \/ \E ids \in SeqsUpTo(AcidIds, 2) : FetchState(ids)
    \/ \E m \in MinSeqs : FetchMempool(m, MaxLimit)
    \/ \E h \in Heights : Push(ChainIndex_new(h, BlockId(h)))
    \/ Pop

\* The state after Environment::default() / init() of every module
Init ==
    \* kvs::Environment
    /\ max_write_queries \in {0, 1, MaxMwq}
    /\ db_intrinsic = [k \in KIds |-> [val |-> << >>, src |-> 0]]
    /\ db_extrinsic = [k \in KIds |-> [val |-> << >>, src |-> 0]]
    /\ cells = <<"NotYet">>
    /\ write_batch = [result |-> 1, intrinsic |-> << >>, extrinsic |-> << >>, len_ |-> 0]
    /\ batch_lock = 0
    /\ kpc = [t \in KThreads |-> [pc |-> "idle", q |-> 0]]
    /\ wq = << >>
    /\ fq = NoFetch
    /\ confirmed = [k \in KIds |-> << >>]
    /\ written_int = {}
    /\ ext_by_batch = {}
    /\ wait_panicked = FALSE
    /\ n_errors = 0
    \* rdb::Environment
    /\ session_owner = 0
    /\ rpc = [t \in RThreads |-> "none"]
    /\ woken = {}
    /\ is_transaction_ = FALSE
    /\ sql_txn = << >>
    /\ resources = EmptyTable
    /\ r_last = NoCall
    /\ rb_last = NoCall
    /\ rb_applied = [r \in RIds |-> 0]
    /\ rb_touched = {}
    /\ rb_clean = TRUE
    \* cache::Environment
    /\ size_soft_limit \in 0 .. MaxSoftLimit
    /\ cache_set = {}
    /\ lru_order = << >>
    /\ held = {}
    /\ cpc = [t \in CThreads |-> "idle"]
    /\ promo = << >>
    /\ origin = [i \in CIds |-> << >>]
    /\ c_last = NoCall
    \* cache::usage, the heap, no Crc
    /\ USAGE = 0
    /\ heap = [b \in Blocks |-> 0]
    /\ owned = [t \in AThreads |-> {}]
    /\ apc = [t \in AThreads |-> Idle]
    /\ crc_ptr = 0
    /\ rc = 0
    /\ crc_handles = [t \in AThreads |-> 0]
    /\ drop_count = 0
    /\ dealloc_count = 0
    /\ usage_at_new = 0
    /\ seen = [t \in AThreads |-> {}]
    /\ rc_view = {}
    /\ accessed = {}
    /\ raced = FALSE
    /\ a_last = NoCall
    \* the tables after main_chain::create_table and acids::create_table
    /\ main_chain = {}
    /\ mc_last = NoCall
    /\ acids = {}
    /\ ac_last = NoCall

SumFor(balances, r) ==
    LET RECURSIVE go(_)
        go(i) == IF i > Len(balances) THEN 0
                 ELSE (IF balances[i][1] = r THEN balances[i][2] ELSE 0) + go(i + 1)
    IN  go(1)

\* A single thread that calls update_balance and fetch on its master
\* session, outside transactions, starting from the empty table.
BalUpdate(balances) ==
    /\ rpc[1] = "session"
    /\ LET res == update_balance(balances, resources)
       IN  /\ InRange(res.table)
           /\ resources' = res.table
           /\ rb_last' = [op |-> "update_balance", balances |-> balances,
                          before |-> resources, ok |-> res.ok]
           /\ rb_clean' = (rb_clean /\ res.ok)
           \* the history is kept only as long as every call returned Ok
           /\ rb_applied' = IF rb_clean /\ res.ok
                            THEN [r \in RIds |-> rb_applied[r] + SumFor(balances, r)]
                            ELSE [r \in RIds |-> 0]
           /\ rb_touched' = IF rb_clean /\ res.ok
                            THEN rb_touched \cup
                                 {balances[i][1] : i \in {k \in DOMAIN balances : balances[k][2] # 0}}
                            ELSE {}
    /\ UNCHANGED << session_owner, rpc, woken, is_transaction_, sql_txn, r_last >>
    /\ UNCHANGED not_rdb_vars

BalFetch(resource_ids) ==
    /\ rpc[1] = "session"
    /\ rb_last' = [op |-> "fetch", resource_ids |-> resource_ids,
                   result |-> fetch(resource_ids, resources)]
    /\ UNCHANGED << session_owner, rpc, woken, is_transaction_, sql_txn, resources,
                    r_last, rb_applied, rb_touched, rb_clean >>
    /\ UNCHANGED not_rdb_vars

BalNext ==
    \/ rpc[1] = "none" /\ NewSession(1)
    \/ NewSessionEnd(1)
    \/ \E bs \in SeqsUpTo(Balances, MaxBalances) : BalUpdate(bs)
    \/ \E ids \in SUBSET RIds : BalFetch(ids)

\* resources::update_balance called on the session of thread 1, inside or
\* outside a transaction
TxnUpdate(balances) ==
    /\ rpc[1] = "session"
    /\ LET res == update_balance(balances, resources)
       IN  /\ InRange(res.table)
           /\ resources' = res.table
           /\ rb_last' = [op |-> "update_balance", balances |-> balances,
                          before |-> resources, ok |-> res.ok,
                          in_txn |-> is_transaction_]
    /\ r_last' = NoCall
    /\ UNCHANGED << session_owner, rpc, woken, is_transaction_, sql_txn,
                    rb_applied, rb_touched, rb_clean >>
    /\ UNCHANGED not_rdb_vars

\* A single thread that calls update_balance on its master session inside and
\* outside transactions, which it commits, rolls back or leaves open when it
\* drops the session; the calls are on one ResourceId
BalTxnNext ==
    \/ rpc[1] = "none" /\ NewSession(1)
    \/ NewSessionEnd(1)
    \/ ~ is_transaction_ /\ BeginTransaction(1, TRUE)
    \/ is_transaction_ /\ Commit(1, TRUE)
    \/ is_transaction_ /\ Rollback(1, TRUE)
    \/ \E bs \in SeqsUpTo({1} \X Deltas, MaxBalances) : TxnUpdate(bs)
    \/ DropRollback(1)
    \/ DropRelease(1)

SpecBalanceTxn == Init /\ [][BalTxnNext]_vars

SpecBalance == Init /\ [][BalNext]_vars

SpecCache == Init /\ [][CacheNext]_vars

SpecAlloc == Init /\ [][AllocNext]_vars

SpecCrc == Init /\ [][CrcNext]_vars

SpecUsage == Init /\ [][UsageNext]_vars

\* a thread inside insert / not_found runs on: the steps of the eviction loop
\* are taken eventually
\* Whether the loop terminates does not depend on the content of the acids:
\* here every acid inserted is object 1 of its Id, without extrinsic state.
CacheLiveNext ==
    \/ \E t \in CThreads, id \in CIds : Find(t, id)
    \/ \E t \in CThreads, id \in CIds :
          Insert(t, [id |-> id, kind |-> "acid", oid |-> 1, ext |-> FALSE])
    \/ \E t \in CThreads, id \in CIds : NotFoundCall(t, id)
    \/ \E t \in CThreads : EvictTest(t)
    \/ \E t \in CThreads : EvictExpire(t)
    \/ \E t \in CThreads : Expire(t)
    \/ \E h \in CIds \X Oids : DropHandle(h)

SpecCacheLive ==
    /\ Init
    /\ [][CacheLiveNext]_vars
    /\ \A t \in CThreads : WF_vars(EvictTest(t)) /\ WF_vars(EvictExpire(t))

SpecKvs == Init /\ [][KvsNext]_vars

\* the write path: insert, update and wait; is_finished and error are the
\* first step of wait without what follows it
KvsWriteNext ==
    \/ \E t \in KThreads, a \in KAcids : Put(t, "insert", a)
    \/ \E t \in KThreads, a \in KAcids : Put(t, "update", a)
    \/ \E t \in KThreads : FlushEnd(t)
    \/ \E t \in KThreads, i \in 1 .. MaxPuts : WaitCheck(t, i)
    \/ \E t \in KThreads : WaitLock(t)

\* a thread inside a call runs on: the holder of the batch mutex finishes its
\* flush, and a thread blocked in write_batch.lock() takes the mutex when it
\* stays free
SpecKvsLive ==
    /\ Init
    /\ [][KvsWriteNext]_vars
    /\ \A t \in KThreads : WF_vars(FlushEnd(t)) /\ WF_vars(WaitLock(t))

SpecRdb == Init /\ [][RdbNext]_vars

SpecSession == Init /\ [][SessionNext]_vars

\* threads that take the session, use it and drop it, again and again
SessionLiveNext ==
    \/ \E t \in RThreads : rpc[t] = "none" /\ NewSession(t)
    \/ \E t \in RThreads : WakeUp(t)
    \/ \E t \in RThreads : NewSessionEnd(t)
    \/ \E t \in RThreads : DropRollback(t)
    \/ \E t \in RThreads : DropRelease(t)

\* a notified thread returns from Condvar::wait (a wake-up without a
\* notification may happen but need not), a thread inside new() or drop()
\* runs on, and every owner drops its session
SpecSessionLive ==
    /\ Init
    /\ [][SessionLiveNext]_vars
    /\ \A t \in RThreads :
          /\ WF_vars(t \in woken /\ WakeUp(t))
          /\ WF_vars(NewSessionEnd(t))
          /\ WF_vars(DropRollback(t))
          /\ WF_vars(DropRelease(t))

SpecMainChain == Init /\ [][MainChainNext]_vars

SpecAcids == Init /\ [][AcidsNext]_vars

SpecChainState == Init /\ [][ChainStateNext]_vars

\* ------------------------------------------------------------------------
\* Claims on the KVS
\* ------------------------------------------------------------------------

\* C1: KVS round trip.  A fetch started after insert(a).wait() returned Ok,
\* with no other put on a.id() since that insert, returns
\* Row{a.intrinsic(), a.extrinsic()} (a.intrinsic() not empty); a fetch of an
\* id whose intrinsic was never written returns None.
C1_RoundTrip ==
    /\ ( /\ fq.state \in {"NotFound", "Found"}
         /\ fq.expect # << >>
         /\ Intrinsic(fq.id) # << >> )
       => /\ fq.state = "Found"
          /\ fq.intrinsic = Intrinsic(fq.expect[1].id)
          /\ fq.extrinsic = fq.expect[1].extrinsic
    /\ ( fq.state = "Found" => fq.id \in written_int )

\* C2: flush order.  No fetch returns a Row whose intrinsic was written by a
\* batch while the extrinsic entry that the same batch wrote for that id was
\* not yet visible to the read of the extrinsic store.
C2_FlushOrder ==
    ( /\ fq.state = "Found"
      /\ <<fq.int_src, fq.id>> \in ext_by_batch )
    => fq.ext_src >= fq.int_src

\* C2 witness: a fetch read the intrinsic written by one batch and then the
\* extrinsic that a later flush, still in progress, had already written.
C2_Witness ==
    /\ fq.state = "Found"
    /\ <<fq.int_src, fq.id>> \in ext_by_batch
    /\ fq.ext_src > fq.int_src
    /\ batch_lock # 0

\* the puts made so far are inserts, and wait was called for none of them
OnlyInserts ==
    /\ \A i \in DOMAIN wq : wq[i] # Dropped /\ wq[i].kind = "insert"
    /\ \A t \in KThreads : kpc[t].q = 0

\* C18: with max_write_queries = 4 and an empty batch the first three insert
\* calls return without flushing: their WriteQueries are not finished and
\* nothing is visible to fetch.
C18_Coalescing ==
    (max_write_queries = 4 /\ Len(wq) \in 1 .. 3 /\ OnlyInserts) =>
        /\ \A t \in KThreads : kpc[t].pc # "put_flush"
        /\ \A i \in DOMAIN wq : ~ is_finished(cells, wq[i].cell)
        /\ \A k \in KIds : db_intrinsic[k].val = << >> /\ db_extrinsic[k].val = << >>

\* the WriteQueries that are neither finished nor dropped
Pending == {i \in DOMAIN wq : wq[i] # Dropped /\ ~ is_finished(cells, wq[i].cell)}

\* C19: a put flushes the batch before it returns exactly when the batch
\* length after appending is <= max_write_queries; otherwise the WriteQuery
\* stays pending, and a pending batch is flushed only by a later wait().
C19_FlushCondition ==
    /\ [](\A t \in KThreads :
            kpc[t].pc = "put_flush" => write_batch.len_ <= max_write_queries)
    /\ []((batch_lock = 0 /\ Pending # {}) => write_batch.len_ > max_write_queries)
    /\ [][(/\ write_batch.len_ > max_write_queries
           /\ cells[write_batch.result] = "NotYet"
           /\ cells'[write_batch.result] # "NotYet")
          => \E t \in KThreads : kpc[t].q # 0 /\ kpc[t].pc \in {"wait_lock", "wait_flush"}]_vars

\* two puts are pending in a batch longer than max_write_queries, and a
\* wait() of one of them is flushing it
C19_Witness ==
    /\ write_batch.len_ = 2
    /\ write_batch.len_ > max_write_queries
    /\ Cardinality(Pending) = 2
    /\ \E t \in KThreads : kpc[t].pc = "wait_flush" /\ batch_lock = t

\* C20: the WriteQueries whose puts were appended between two consecutive
\* flushes share one completion cell and observe the same terminal outcome; a
\* completion cell changes only once, NotYet -> Succeeded or NotYet -> Error,
\* and WriteQueries of another batch never observe that outcome.
C20_SharedOutcome ==
    /\ [](cells[write_batch.result] = "NotYet")
    /\ [](\A i \in Pending : wq[i].cell = write_batch.result)
    /\ [][\A c \in DOMAIN cells :
            /\ cells'[c] \in {"NotYet", "Succeeded", "Error"}
            /\ cells[c] # "NotYet" => cells'[c] = cells[c]]_vars

\* two puts went into the first batch; the wait() of the first one flushed
\* it and the write failed: the second WriteQuery observes Error as well
C20_Witness ==
    /\ max_write_queries = 0
    /\ Len(wq) = 2
    /\ wq[1] = Dropped
    /\ wq[2] # Dropped
    /\ wq[2].cell = 1
    /\ cells[1] = "Error"
    /\ wait_result(cells, wq[2].cell) = "Err"

\* C21: WriteQuery::wait always resolves: it returns Ok or Err, never
\* reaching panic!("Never comes here."), because an unfinished WriteQuery
\* holds the current cell of the batch, which the forced flush sets to a
\* terminal value.
C21_WaitResolves ==
    /\ ~ wait_panicked
    /\ \A t \in KThreads :
          kpc[t].pc = "wait_flush" => wq[kpc[t].q].cell = write_batch.result

\* wait() calls have returned, one of them after a forced flush that failed
C21_Witness ==
    /\ ~ wait_panicked
    /\ max_write_queries = 0
    /\ n_errors = 1
    /\ Len(wq) = 2
    /\ wq[1] = Dropped
    /\ wq[2] = Dropped
    /\ \A t \in KThreads : kpc[t].pc = "idle"

\* the step is a put of the given kind
IsPut(kind) ==
    /\ Len(wq') = Len(wq) + 1
    /\ wq'[Len(wq')].kind = kind

\* C22: kvs::update changes only the extrinsic store: it adds nothing to the
\* intrinsic batch and the intrinsic store gets entries only from the
\* intrinsic batch, which only insert fills; so an id whose intrinsic was
\* never written is not found by fetch after an update.
C22_UpdateFrame ==
    /\ [][IsPut("update") =>
            /\ db_intrinsic' = db_intrinsic
            /\ write_batch'.intrinsic \in {write_batch.intrinsic, << >>}]_vars
    /\ [][\A id \in KIds :
            (id \in IdsOf(write_batch'.intrinsic) /\ id \notin IdsOf(write_batch.intrinsic))
            => (IsPut("insert") /\ wq'[Len(wq')].acid.id = id)]_vars
    /\ [][\A id \in KIds :
            db_intrinsic'[id] # db_intrinsic[id] => id \in IdsOf(write_batch.intrinsic)]_vars
    /\ [](fq.state = "Found" => db_intrinsic[fq.id].val # << >>)

\* an update of an id without intrinsic entry is flushed; fetch has not found
\* the id
C22_Witness ==
    /\ fq.state = "NotFound"
    /\ fq.id # EmptyId
    /\ db_extrinsic[fq.id].val # << >>
    /\ db_intrinsic[fq.id].val = << >>
    /\ n_errors = 0
    /\ write_batch.len_ = 0

\* ------------------------------------------------------------------------
\* Claims on the RDB
\* ------------------------------------------------------------------------

\* C3: session mutual exclusion.  At most one thread holds a session, and
\* session_owner is Some(t) exactly while thread t holds it.
C3_SessionExclusive ==
    /\ Cardinality(Holding) <= 1
    /\ \A t \in RThreads : (session_owner = t) <=> (t \in Holding)

\* C3 witness: a thread holds the session inside a transaction while
\* another thread is blocked in Condvar::wait.
C3_Witness ==
    \E t, u \in RThreads :
        /\ rpc[t] = "session"
        /\ is_transaction_
        /\ rpc[u] = "waiting"

\* C4: balance invariant.  Every row of table resources has value > 0.
C4_BalancePositive ==
    \A r \in DOMAIN resources : resources[r] > 0

\* C4 witness: inside a transaction a balance reached 0 and its row is gone
\* while another row remains.
C4_Witness ==
    /\ sql_txn # << >>
    /\ DOMAIN resources # {}
    /\ \E r \in DOMAIN sql_txn[1] : r \notin DOMAIN resources

Stored(tbl, r) == IF r \in DOMAIN tbl THEN tbl[r] ELSE 0

\* C5: update_balance returns Ok iff for every ResourceId of the call the
\* stored balance plus the sum of its deltas is >= 0, whatever the order of
\* the entries.
C5_UpdateBalanceOk ==
    rb_last.op = "update_balance" =>
        ( rb_last.ok <=>
            \A i \in DOMAIN rb_last.balances :
                Stored(rb_last.before, rb_last.balances[i][1])
                    + SumFor(rb_last.balances, rb_last.balances[i][1]) >= 0 )

\* C5 witness: a call that returned Ok although a withdrawal is listed
\* before the deposit that covers it.
C5_Witness ==
    /\ rb_last.op = "update_balance"
    /\ rb_last.ok
    /\ \E i, j \in DOMAIN rb_last.balances :
          /\ i < j
          /\ rb_last.balances[i][1] = rb_last.balances[j][1]
          /\ rb_last.balances[i][2] < 0
          /\ rb_last.balances[j][2] > 0
          /\ Stored(rb_last.before, rb_last.balances[i][1]) + rb_last.balances[i][2] < 0

\* C6: after successful update_balance calls from the empty table, fetch
\* returns for each requested ResourceId the sum of its deltas when the sum
\* is positive and no key otherwise.
C6_FetchSum ==
    (rb_last.op = "fetch" /\ rb_clean) =>
        rb_last.result =
            [r \in {x \in rb_last.resource_ids : rb_applied[x] > 0} |-> rb_applied[r]]

\* C6 witness: a fetch that returned a balance and omitted a requested
\* ResourceId whose deposits were all withdrawn.
C6_Witness ==
    /\ rb_last.op = "fetch"
    /\ rb_clean
    /\ DOMAIN rb_last.result # {}
    /\ \E r \in rb_last.resource_ids \cap rb_touched :
          /\ rb_applied[r] = 0
          /\ r \notin DOMAIN rb_last.result

\* C7: the cache holds at most one entry per Id, every entry is a real Acid
\* or the NotFound sentinel of its Id, and the LRU order contains exactly the
\* entries of the index, each once.
C7_CacheUnique ==
    /\ \A o1, o2 \in cache_set : o1.id = o2.id => o1 = o2
    /\ \A o \in cache_set : o \in CObjects \/ o = NotFound(o.id)
    /\ Len(lru_order) = Cardinality(cache_set)
    /\ {lru_order[k] : k \in DOMAIN lru_order} = {Ref(o) : o \in cache_set}

\* an insert on an Id that is cached has returned; a sentinel and a real
\* Acid are cached
C7_Witness ==
    /\ c_last.op = "insert"
    /\ c_last.existed
    /\ \E o \in cache_set : is_not_found(o)
    /\ \E o \in cache_set : ~ is_not_found(o)

\* C8: every eviction removes the entry whose most recent promotion
\* (insertion, find hit, is_cached hit, insert on the same Id) is the oldest
\* among the cached entries.
C8_LruEviction ==
    (c_last.op = "expire" /\ c_last.expired) => c_last.id = c_last.oldest

\* an eviction has removed one of two cached entries
C8_Witness ==
    /\ c_last.op = "expire"
    /\ c_last.expired
    /\ c_last.id = c_last.oldest
    /\ cache_set # {}

\* C9: for an Id without an entry find returns Lost; after not_found(id) it
\* returns Fault; after insert(a) it returns Hit(a) and is_cached returns
\* Cached, as long as the entry is not evicted.
C9_MissFaultHit ==
    (c_last.op \in {"find", "is_cached"}) =>
        /\ c_last.origin = << >> => c_last.result = "Lost"
        /\ c_last.origin = <<"not_found">> => c_last.result = "Fault"
        /\ (c_last.origin # << >> /\ c_last.origin[1] = "acid") =>
              /\ c_last.result = IF c_last.op = "find" THEN "Hit" ELSE "Cached"
              /\ c_last.hit = {<<c_last.id, c_last.origin[2]>>}

\* find returns Hit(a) for an entry that insert(a) put in place of the sentinel
C9_Witness ==
    /\ c_last.op = "find"
    /\ c_last.result = "Hit"
    /\ c_last.origin # << >>
    /\ c_last.origin[1] = "acid"
    /\ c_last.origin[3]
    /\ c_last.hit = {<<c_last.id, c_last.origin[2]>>}

\* C10: find(id) is Lost / Fault / Hit exactly when is_cached(id) is
\* Lost / Fault / Cached, and neither adds, removes nor replaces an entry.
C10_FindIsCachedAgree ==
    /\ \A id \in CIds :
          /\ find_result(cache_set, id) = "Lost" <=> is_cached_result(cache_set, id) = "Lost"
          /\ find_result(cache_set, id) = "Fault" <=> is_cached_result(cache_set, id) = "Fault"
          /\ find_result(cache_set, id) = "Hit" <=> is_cached_result(cache_set, id) = "Cached"
    /\ (c_last.op \in {"find", "is_cached"}) => cache_set = c_last.before

\* is_cached has returned Fault for a sentinel while a real Acid is cached too
C10_Witness ==
    /\ c_last.op = "is_cached"
    /\ c_last.result = "Fault"
    /\ cache_set = c_last.before
    /\ \E o \in cache_set : ~ is_not_found(o)
    /\ lru_order[Len(lru_order)] = <<c_last.id, 0>>

\* C11: not_found(id) inserts a NotFound sentinel only when no entry exists
\* for id; when an entry (real or sentinel) exists it leaves the entries,
\* their content and the LRU order unchanged and runs no eviction.
C11_NotFoundFrame ==
    (c_last.op = "not_found") =>
        IF lru_get(c_last.before, c_last.id) = {}
        THEN /\ cache_set = c_last.before \cup {NotFound(c_last.id)}
             /\ lru_order = Append(c_last.order, <<c_last.id, 0>>)
        ELSE /\ cache_set = c_last.before
             /\ lru_order = c_last.order
             /\ cpc[c_last.thread] = "idle"

\* not_found has returned for the Id of a real Acid that is the LRU entry of
\* two: the Acid is still cached and still the LRU entry
C11_Witness ==
    /\ c_last.op = "not_found"
    /\ Len(lru_order) = 2
    /\ lru_order[1][1] = c_last.id
    /\ \E o \in cache_set : o.id = c_last.id /\ ~ is_not_found(o)
    /\ cpc[c_last.thread] = "idle"

\* C13: the NotFound sentinel never escapes: find never returns Hit carrying
\* the sentinel, and no cache operation calls a panicking accessor of a
\* sentinel (insert replaces a sentinel, it never merges into it).
C13_SentinelInside ==
    /\ \A o \in cache_set : o.kind # "panic"
    /\ (c_last.op = "find" /\ c_last.result = "Hit") =>
          \A r \in c_last.hit : r # <<c_last.id, 0>>

\* insert has returned for an Id whose entry was the sentinel: the entry is
\* now the real Acid
C13_Witness ==
    /\ c_last.op = "insert"
    /\ c_last.existed
    /\ origin[c_last.id] # << >>
    /\ origin[c_last.id][1] = "acid"
    /\ origin[c_last.id][3]
    /\ \E o \in cache_set : o.id = c_last.id /\ o.kind = "acid"

\* C12 as stated: the eviction loop run by insert / not_found always
\* terminates.
C12_LoopTerminates ==
    \A t \in CThreads : (cpc[t] # "idle") ~> (cpc[t] = "idle")

\* C12, amended: when the eviction loop exits, either the usage read at the
\* exit test was <= size_soft_limit or the last expire found the cache empty;
\* and the loop terminates provided the other threads eventually stop calling
\* insert / not_found.
C12_EvictionLoop ==
    /\ [](c_last.op = "evict_exit" => c_last.usage <= size_soft_limit)
    /\ []((c_last.op = "expire" /\ ~ c_last.expired) =>
              (cache_set = {} /\ lru_order = << >>))
    /\ (<>[](c_last.op \notin {"insert", "not_found"})) =>
          \A t \in CThreads : (cpc[t] # "idle") ~> (cpc[t] = "idle")

\* the loop has left at "break": expire found the cache empty while the usage
\* is still above the soft limit
C12_Witness ==
    /\ c_last.op = "expire"
    /\ ~ c_last.expired
    /\ cache_set = {}
    /\ size_soft_limit < cache_using_byte_size(cache_set, held)
    /\ \A t \in CThreads : cpc[t] = "idle"
    /\ held # {}

\* C14: the reference count equals the number of live handles; the payload
\* destructor and the deallocation run exactly once, by the drop of the last
\* handle and never while a handle is live; clone does not change the usage
\* counter, and after the last drop the usage counter is back to its value
\* before Crc::new.
C14_CrcLifetime ==
    /\ (crc_ptr # 0 /\ dealloc_count = 0) => rc = TotalHandles
    /\ drop_count <= 1
    /\ dealloc_count <= drop_count
    /\ TotalHandles > 0 => (drop_count = 0 /\ heap[crc_ptr] # 0)
    /\ (crc_ptr # 0 /\ TotalHandles = 0 /\ \A t \in AThreads : apc[t] = Idle) =>
          /\ drop_count = 1
          /\ dealloc_count = 1
          /\ heap[crc_ptr] = 0
          /\ usage(USAGE) = usage_at_new
    /\ a_last.op = "clone" => usage(USAGE) = a_last.before

\* every thread has read the payload through a handle, the last handle is
\* dropped and the Bucket is deallocated
C14_Witness ==
    /\ accessed = AThreads
    /\ TotalHandles = 0
    /\ drop_count = 1
    /\ dealloc_count = 1
    /\ \A t \in AThreads : apc[t] = Idle
    /\ usage(USAGE) = usage_at_new

\* C15: clone increments with Acquire, drop decrements with Release, and the
\* final drop synchronizes (acquire) with the earlier releasing drops before
\* it runs the payload destructor: every access to the payload made through
\* another handle happens-before the destruction.
C15_DestructionOrdered ==
    /\ clone_order = "Acquire"
    /\ drop_order = "Release"
    /\ ~ raced

\* C16: add_usage(n) returns the counter value after adding n, sub_usage(n)
\* the counter value after subtracting n; usage() read afterwards equals the
\* value returned.
C16_UsageReturns ==
    /\ a_last.op = "add_usage" =>
          /\ a_last.ret = a_last.before + a_last.n
          /\ usage(USAGE) = a_last.ret
    /\ a_last.op = "sub_usage" =>
          /\ a_last.ret = a_last.before - a_last.n
          /\ usage(USAGE) = a_last.ret
    /\ a_last.op = "usage" => a_last.ret = a_last.prev.ret

\* blocks whose alloc has not yet added, or whose dealloc has subtracted
\* already, their size
InProgress == {apc[t].ptr : t \in {u \in AThreads : apc[u].at \in {"alloc_add", "dealloc_free"}}}

\* C17: the usage counter equals the sum of the usable sizes of the blocks
\* allocated through CacheAlloc and not yet deallocated (blocks inside a
\* running alloc / dealloc excepted); a failed alloc and a dealloc of null
\* leave it unchanged, and it never wraps below zero.
C17_AllocAccounting ==
    /\ USAGE = Sum(heap, Blocks \ InProgress)
    /\ USAGE <= NBlocks * MaxBlockSize

\* a block has been deallocated while another block is still allocated
C17_Witness ==
    /\ a_last.op = "dealloc"
    /\ a_last.ptr # 0
    /\ \A t \in AThreads : apc[t] = Idle
    /\ USAGE > 0
    /\ \E b \in Blocks : heap[b] = USAGE

\* ------------------------------------------------------------------------
\* Claims on the session interface (SpecSession)
\* ------------------------------------------------------------------------

\* C23: Sqlite3Session::new (master / slave) called by the thread that owns
\* the live session panics and changes nothing: a thread with a session never
\* gets into the acquisition or the wait of a second one; the panic of new
\* happens only to the owner and leaves session_owner, the positions of all
\* threads, the woken waiters, the transaction flag, the engine transaction
\* and the tables as they were; after it the owner still has its session and
\* no other thread holds one.
C23_ReentryRejected ==
    /\ [][\A t \in RThreads :
            rpc[t] = "session" => rpc'[t] \in {"session", "dropping"}]_vars
    /\ [][\A t \in RThreads :
            (r_last' = Call("new", t, "panic") /\ r_last # r_last')
                => /\ session_owner = t
                   /\ UNCHANGED << session_owner, rpc, woken, is_transaction_,
                                   sql_txn, resources >>]_vars
    /\ [](\A t \in RThreads :
            r_last = Call("new", t, "panic")
                => /\ session_owner = t
                   /\ rpc[t] = "session"
                   /\ Holding = {t})

C23_Witness ==
    /\ r_last = Call("new", 1, "panic")
    /\ session_owner = 1
    /\ rpc[1] = "session"
    /\ rpc[2] = "waiting"
    /\ 2 \notin woken
    /\ is_transaction_
    /\ sql_txn # << >>


\* C24: when a session is dropped while its transaction is open, the tables
\* are after the drop what they were at BEGIN and no engine transaction stays
\* open; the tables change only in a step of a thread that has a session, so
\* the next session finds them as the drop left them; and a session that new
\* has just returned has is_transaction() = false and no open engine
\* transaction.
C24_RollbackOnDrop ==
    /\ [][\A t \in RThreads :
            (rpc[t] = "session" /\ rpc'[t] = "dropping" /\ is_transaction_)
                => /\ sql_txn # << >>
                   /\ resources' = sql_txn[1]
                   /\ sql_txn' = << >>]_vars
    /\ [][resources' # resources => \E t \in RThreads : rpc[t] = "session"]_vars
    /\ [](\A t \in RThreads :
            r_last = Call("new", t, "Ok")
                => /\ rpc[t] = "session"
                   /\ ~ is_transaction_
                   /\ sql_txn = << >>)
    /\ [](session_owner = 0 => sql_txn = << >>)

C24_Witness ==
    /\ r_last.op = "drop"
    /\ r_last.open
    /\ r_last.before # resources
    /\ rpc[r_last.thread] = "dropping"
    /\ \E u \in RThreads : rpc[u] = "waiting"


TxnOps == {"begin_transaction", "commit", "rollback"}

\* the step is a call of one of begin_transaction / commit / rollback
IsTxnCall == r_last' # r_last /\ r_last'.op \in TxnOps

\* C25: begin_transaction panics exactly when is_transaction() is true,
\* commit and rollback panic exactly when it is false; while a session lives
\* is_transaction() turns true only in a begin_transaction that returns Ok
\* and false only in a commit or rollback that returns Ok; a call that
\* returns Err or panics leaves it as it was.
C25_TransactionStates ==
    /\ [][IsTxnCall =>
            (r_last'.result = "panic" <=>
                IF r_last'.op = "begin_transaction"
                THEN is_transaction_ ELSE ~ is_transaction_)]_vars
    /\ [][\A t \in RThreads :
            (rpc[t] = "session" /\ rpc'[t] = "session"
             /\ ~ is_transaction_ /\ is_transaction_')
                => r_last' = Call("begin_transaction", t, "Ok")]_vars
    /\ [][\A t \in RThreads :
            (rpc[t] = "session" /\ rpc'[t] = "session"
             /\ is_transaction_ /\ ~ is_transaction_')
                => r_last' \in {Call("commit", t, "Ok"), Call("rollback", t, "Ok")}]_vars
    /\ [][(IsTxnCall /\ r_last'.result \in {"Err", "panic"})
            => is_transaction_' = is_transaction_]_vars
    /\ [][(IsTxnCall /\ r_last'.result = "Ok")
            => is_transaction_' = (r_last'.op = "begin_transaction")]_vars

C25_Witness ==
    /\ r_last = Call("commit", 1, "Err")
    /\ rpc[1] = "session"
    /\ is_transaction_
    /\ sql_txn # << >>
    /\ sql_txn[1] # resources


\* ------------------------------------------------------------------------
\* Claims on table main_chain (SpecMainChain)
\* ------------------------------------------------------------------------

\* C26: no two rows of main_chain have the same height or the same id; a
\* push returns an error and leaves the table as it was when a row with the
\* height or with the id of the ChainIndex exists, and otherwise returns Ok
\* and adds exactly the row of the ChainIndex.
C26_MainChainUnique ==
    /\ \A r1, r2 \in main_chain :
          (r1.height = r2.height \/ r1.id = r2.id) => r1 = r2
    /\ mc_last.op = "push" =>
          LET ci == mc_last.chain_index
              taken == \E r \in mc_last.before :
                          r.height = ci.height \/ r.id = ci.id
          IN  /\ mc_last.ok <=> ~ taken
              /\ taken => main_chain = mc_last.before
              /\ ~ taken => /\ main_chain = mc_last.before \cup {ci}
                            /\ ci \notin mc_last.before

\* a push refused only for the id: the height is free, the id is taken
C26_Witness ==
    /\ mc_last.op = "push"
    /\ ~ mc_last.ok
    /\ main_chain = mc_last.before
    /\ Cardinality(main_chain) = 2
    /\ \A r \in main_chain : r.height # mc_last.chain_index.height
    /\ \E r \in main_chain : r.id = mc_last.chain_index.id

\* the row of tbl with the greatest height
Highest(tbl) == CHOOSE r \in tbl : \A q \in tbl : q.height <= r.height

\* C27: a pop on a table with rows removes exactly the row with the greatest
\* height and returns Ok, a pop on the empty table returns Ok and leaves it
\* empty; a push of the removed ChainIndex right after the pop returns Ok and
\* makes the table what it was before the pop.
C27_PopPush ==
    /\ mc_last.op = "pop" =>
          /\ mc_last.ok
          /\ mc_last.before = {} => main_chain = {}
          /\ mc_last.before # {} =>
                /\ main_chain = mc_last.before \ {Highest(mc_last.before)}
                /\ Cardinality(main_chain) = Cardinality(mc_last.before) - 1
                /\ \A r \in main_chain : r.height < Highest(mc_last.before).height
    /\ (/\ mc_last.op = "push"
        /\ mc_last.after_pop # {}
        /\ mc_last.chain_index = Highest(mc_last.after_pop))
          => /\ mc_last.ok
             /\ main_chain = mc_last.after_pop

C27_Witness ==
    /\ mc_last.op = "push"
    /\ Cardinality(mc_last.after_pop) = 3
    /\ mc_last.chain_index = Highest(mc_last.after_pop)
    /\ mc_last.chain_index.height = 3
    /\ mc_last.before = mc_last.after_pop \ {mc_last.chain_index}
    /\ main_chain = mc_last.after_pop


Min2(a, b) == IF a <= b THEN a ELSE b

\* r1 comes before r2 by height: ascending for dir = 1, descending for
\* dir = -1
Before(r1, r2, dir) == dir * r1.height < dir * r2.height

\* res is the first limit rows of the set rows in the order of dir
FirstRows(res, rows, limit, dir) ==
    /\ Len(res) = Min2(limit, Cardinality(rows))
    /\ \A i \in DOMAIN res : res[i] \in rows
    /\ \A i, j \in DOMAIN res : i < j => Before(res[i], res[j], dir)
    /\ \A r \in rows :
          (\A i \in DOMAIN res : res[i] # r)
              => \A i \in DOMAIN res : Before(res[i], r, dir)

\* C28: fetch returns the map with exactly the requested heights that have a
\* row, each with the id of its row (no height <= 0 is among them);
\* fetch_asc returns the first limit rows with height >= min_height in
\* ascending order, fetch_desc the first limit rows with height <=
\* max_height in descending order (nothing for limit 0 or when no row is in
\* the range); none of the three calls changes the table.
C28_MainChainReads ==
    /\ [](mc_last.op = "fetch" =>
            /\ DOMAIN mc_last.result =
                  {h \in {mc_last.heights[i] : i \in DOMAIN mc_last.heights} :
                      \E r \in main_chain : r.height = h}
            /\ \A h \in DOMAIN mc_last.result :
                  /\ h > 0
                  /\ ChainIndex_new(h, mc_last.result[h]) \in main_chain)
    /\ [](mc_last.op = "fetch_asc" =>
            FirstRows(mc_last.result,
                      {r \in main_chain : r.height >= mc_last.height},
                      mc_last.limit, 1))
    /\ [](mc_last.op = "fetch_desc" =>
            FirstRows(mc_last.result,
                      {r \in main_chain : r.height <= mc_last.height},
                      mc_last.limit, 0 - 1))
    /\ [][mc_last'.op \in {"fetch", "fetch_asc", "fetch_desc"}
            => main_chain' = main_chain]_vars

C28_Witness ==
    /\ mc_last.op = "fetch_asc"
    /\ mc_last.height = 2
    /\ mc_last.limit = 1
    /\ Cardinality(main_chain) = 3
    /\ Len(mc_last.result) = 1
    /\ mc_last.result[1].height = 2


\* ------------------------------------------------------------------------
\* Claims on table acids (SpecAcids)
\* ------------------------------------------------------------------------

\* the ids of a sequence of ids
IdSet(ids) == {ids[i] : i \in DOMAIN ids}

\* the ids that have a row in tbl
Known(tbl) == {r.id : r \in tbl}

\* C29: accept_to_mempool keeps every row it finds (same seq, same
\* chain_height, so no acid of a chain goes back to mempool) and adds, for
\* each listed id without a row, one row with NULL chain_height; the same
\* call repeated right away changes nothing, so the two calls together add
\* one row per listed id that had none.
C29_AcceptIdempotent ==
    ac_last.op = "accept_to_mempool" =>
        LET new == IdSet(ac_last.ids) \ Known(ac_last.before)
        IN  /\ ac_last.before \subseteq acids
            /\ Known(acids) = Known(ac_last.before) \cup IdSet(ac_last.ids)
            /\ Cardinality(acids) = Cardinality(ac_last.before) + Cardinality(new)
            /\ \A r \in acids \ ac_last.before :
                  /\ r.id \in new
                  /\ r.chain_height = NULL
                  /\ \A q \in ac_last.before : q.seq < r.seq
            /\ \A r1, r2 \in acids : (r1.id = r2.id \/ r1.seq = r2.seq) => r1 = r2
            /\ ac_last.first # << >> =>
                  /\ acids = ac_last.before
                  /\ Cardinality(acids) = Cardinality(ac_last.first[1])
                        + Cardinality(IdSet(ac_last.ids) \ Known(ac_last.first[1]))

\* accept_to_mempool([1]) twice on a table where acid 2 is in a chain and
\* acid 1 is new: one row more, acid 2 still in its chain
C29_Witness ==
    /\ ac_last.op = "accept_to_mempool"
    /\ ac_last.ids = <<1>>
    /\ ac_last.first # << >>
    /\ Cardinality(ac_last.first[1]) = 1
    /\ \E r \in ac_last.first[1] : r.id = 2 /\ r.chain_height # NULL
    /\ Cardinality(acids) = 2
    /\ \E r \in acids : r.id = 1 /\ r.chain_height = NULL /\ r.seq = 2

\* C30: mempool_to_chain sets chain_height to the height of chain_index in
\* exactly the rows of listed ids that had NULL chain_height, leaves every
\* other row (not listed, or listed with a chain_height) as it was, adds and
\* removes no row, and returns the number of rows it changed: ids without a
\* row and repeated ids add nothing to it.
C30_MempoolToChain ==
    ac_last.op = "mempool_to_chain" =>
        LET moved == {r \in ac_last.before :
                         r.id \in IdSet(ac_last.ids) /\ r.chain_height = NULL}
        IN  /\ acids = (ac_last.before \ moved) \cup
                  {[r EXCEPT !.chain_height = ac_last.chain_index.height] : r \in moved}
            /\ Cardinality(acids) = Cardinality(ac_last.before)
            /\ ac_last.result = Cardinality(moved)

\* a call that lists an id twice, an id already in a chain of another height
\* and no unknown id: one row moves and 1 is returned
C30_Witness ==
    /\ ac_last.op = "mempool_to_chain"
    /\ ac_last.ids = <<1, 2, 1>>
    /\ ac_last.chain_index.height = 2
    /\ ac_last.result = 1
    /\ \E r \in ac_last.before : r.id = 2 /\ r.chain_height = 1
    /\ \E r \in ac_last.before : r.id = 1 /\ r.chain_height = NULL
    /\ \E r \in acids : r.id = 1 /\ r.chain_height = 2
    /\ \E r \in acids : r.id = 2 /\ r.chain_height = 1


\* ------------------------------------------------------------------------
\* Claims on the tables acids and main_chain together (SpecChainState)
\* ------------------------------------------------------------------------

\* C31: chain_to_mempool sets chain_height to NULL in exactly the rows whose
\* chain_height is the height of chain_index, leaves all other rows, and
\* returns the number of those rows; called right after mempool_to_chain
\* with the same chain_index it leaves every acid that was in mempool before
\* the two calls in mempool, and a fetch_state right after it reports None
\* for each acid the mempool_to_chain had promoted.
C31_ChainToMempool ==
    /\ ac_last.op = "chain_to_mempool" =>
          LET hit == {r \in ac_last.before :
                         r.chain_height = ac_last.chain_index.height}
          IN  /\ acids = (ac_last.before \ hit) \cup
                    {[r EXCEPT !.chain_height = NULL] : r \in hit}
              /\ ac_last.result = Cardinality(hit)
              /\ ac_last.promoted # << >> =>
                    \A r \in ac_last.promoted[1] : r.chain_height = NULL => r \in acids
    /\ ac_last.op = "fetch_state" =>
          \A id \in ac_last.returned \cap IdSet(ac_last.ids) :
              /\ id \in DOMAIN ac_last.result
              /\ ac_last.result[id] = None

C31_Witness ==
    /\ ac_last.op = "fetch_state"
    /\ ac_last.returned = {1}
    /\ ac_last.ids = <<1, 2>>
    /\ DOMAIN ac_last.result = {1, 2}
    /\ ac_last.result[1] = None
    /\ ac_last.result[2].some
    /\ \E r \in acids : r.id = 1 /\ r.chain_height = NULL


\* the row of the acid id in tbl
RowOf(id, tbl) == CHOOSE r \in tbl : r.id = id

\* C32: fetch_state returns a map whose keys are exactly the requested ids
\* that have a row in acids; the value of an id is None exactly when its
\* chain_height is NULL, and Some(ChainIndex) with the height h and the id
\* of the row of main_chain at h exactly when its chain_height is h.
C32_FetchState ==
    ac_last.op = "fetch_state" =>
        /\ DOMAIN ac_last.result = IdSet(ac_last.ids) \cap Known(acids)
        /\ \A id \in DOMAIN ac_last.result :
              LET h == RowOf(id, acids).chain_height
              IN  /\ ac_last.result[id] = None <=> h = NULL
                  /\ h # NULL =>
                        \E m \in main_chain :
                            /\ m.height = h
                            /\ ac_last.result[id] = Some(ChainIndex_new(h, m.id))


\* the rows of acids whose chain_height has no row in main_chain
Dangling(tbl, chain) ==
    {r \in tbl : r.chain_height # NULL /\ \A m \in chain : m.height # r.chain_height}

\* C39: for a requested acid whose chain_height is h while main_chain has no
\* row at h, fetch_state has the key and the value None; fetch_mempool lists
\* only rows with NULL chain_height, so it does not list that acid; and
\* mempool_to_chain leaves every row that has a chain_height as it is.
C39_StateDisagrees ==
    /\ ac_last.op = "fetch_state" =>
          \A r \in Dangling(acids, main_chain) :
              r.id \in IdSet(ac_last.ids) =>
                  /\ r.id \in DOMAIN ac_last.result
                  /\ ac_last.result[r.id] = None
    /\ ac_last.op = "fetch_mempool" =>
          \A i \in DOMAIN ac_last.result :
              \E r \in acids : /\ r.seq = ac_last.result[i][1]
                               /\ r.id = ac_last.result[i][2]
                               /\ r.chain_height = NULL
    /\ ac_last.op = "mempool_to_chain" =>
          \A r \in ac_last.before : r.chain_height # NULL => r \in acids

\* acid 1 is at height 2, main_chain has its row of height 1 only (the row of
\* height 2 is popped or was never pushed), and fetch_state gives None for
\* acid 1 and the block of height 1 for acid 2
C39_Witness ==
    /\ ac_last.op = "fetch_state"
    /\ DOMAIN ac_last.result = {1, 2}
    /\ ac_last.result[1] = None
    /\ ac_last.result[2] = Some(ChainIndex_new(1, BlockId(1)))
    /\ RowOf(1, acids).chain_height = 2
    /\ RowOf(2, acids).chain_height = 1
    /\ main_chain = {ChainIndex_new(1, BlockId(1))}


\* the rows of tbl with NULL chain_height and seq of min_seq or more
Eligible(tbl, min_seq) == {r \in tbl : r.chain_height = NULL /\ r.seq >= min_seq}

\* the first position of id in ids
FirstAt(ids, id) == CHOOSE i \in DOMAIN ids : ids[i] = id /\ \A j \in 1 .. (i - 1) : ids[j] # id

\* C33: fetch_mempool(min_seq, limit) returns at most limit pairs (seq, id),
\* each the row of an acid with NULL chain_height and seq >= min_seq (every
\* seq when min_seq is None), in strictly ascending seq and with no such row
\* of a smaller seq left out; a row accepted later has the larger seq; and
\* pages fetched with the same limit and min_seq = the last seq + 1, with no
\* change of the table between them, list every acid of mempool exactly once
\* when the last page is shorter than limit.
C33_FetchMempool ==
    /\ ac_last.op = "fetch_mempool" =>
          LET res  == ac_last.result
              rows == Eligible(acids, IF ac_last.min_seq.some THEN ac_last.min_seq.val ELSE 0)
          IN  /\ Len(res) = Min2(ac_last.limit, Cardinality(rows))
              /\ \A i \in DOMAIN res :
                    \E r \in rows : /\ res[i] = <<r.seq, r.id>>
                                    /\ Cardinality({q \in rows : q.seq < r.seq}) = i - 1
              /\ \A i, j \in DOMAIN res : i < j => res[i][1] < res[j][1]
              /\ (ac_last.pages # << >> /\ Len(res) < ac_last.limit) =>
                    LET all == ac_last.pages[1]
                    IN  /\ {all[i] : i \in DOMAIN all} = {<<r.seq, r.id>> : r \in Eligible(acids, 0)}
                        /\ Len(all) = Cardinality(Eligible(acids, 0))
    /\ ac_last.op = "accept_to_mempool" =>
          LET new == acids \ ac_last.before
          IN  /\ \A r \in new, q \in ac_last.before : q.seq < r.seq
              /\ \A r, q \in new :
                    FirstAt(ac_last.ids, q.id) < FirstAt(ac_last.ids, r.id) => q.seq < r.seq

\* the third page of a paging with limit 1 over two acids in mempool: it is
\* empty and the pages together list both acids
C33_Witness ==
    /\ ac_last.op = "fetch_mempool"
    /\ ac_last.limit = 1
    /\ ac_last.min_seq.some
    /\ ac_last.result = << >>
    /\ ac_last.pages # << >>
    /\ Len(ac_last.pages[1]) = 2
    /\ Cardinality(Eligible(acids, 0)) = 2


\* the objects in set
Refs(set) == {Ref(o) : o \in set}

\* the real entry of id in set, if any
RealEntry(set, id) == {o \in lru_get(set, id) : ~ is_not_found(o)}

\* C34: insert(val) over a cached real entry e of the same id keeps the
\* object e in the cache with the extrinsic state of val folded into it
\* (e.merge(val)), does not store val, leaves every other entry alone, and
\* makes e the MRU entry; a find then hits e, and a handle to e that a caller
\* holds still refers to the cached entry.
C34_InsertMerges ==
    [][(c_last'.op = "insert" /\ RealEntry(cache_set, c_last'.id) # {}) =>
          LET val == c_last'.val
              e   == CHOOSE o \in RealEntry(cache_set, val.id) : TRUE
          IN  /\ c_last'.existed
              /\ cache_set' = (cache_set \ {e}) \cup {[e EXCEPT !.ext = (e.ext \/ val.ext)]}
              /\ Ref(val) \notin Refs(cache_set')
              /\ Len(lru_order') = Len(lru_order)
              /\ lru_order'[Len(lru_order')] = Ref(e)
              /\ \A i, j \in DOMAIN lru_order :
                    (i < j /\ lru_order[i] # Ref(e) /\ lru_order[j] # Ref(e)) =>
                        \E k, l \in DOMAIN lru_order' :
                            k < l /\ lru_order'[k] = lru_order[i] /\ lru_order'[l] = lru_order[j]
              /\ find_result(cache_set', val.id) = "Hit"
              /\ Refs(lru_get(cache_set', val.id)) = {Ref(e)}
              /\ \A h \in held : h \in Refs(cache_set) => h \in Refs(cache_set')
      ]_vars

\* insert(val) has met the cached object of another oid, which a caller
\* holds, while a second entry is cached: val carried the extrinsic state, and
\* the cached object has it now and is the MRU entry
C34_Witness ==
    /\ c_last.op = "insert"
    /\ c_last.existed
    /\ c_last.val.ext
    /\ Cardinality(cache_set) = 2
    /\ \E e \in RealEntry(cache_set, c_last.id) :
          /\ e.oid # c_last.val.oid
          /\ e.ext
          /\ Ref(e) \in held
          /\ origin[c_last.id] = <<"acid", e.oid, FALSE>>
          /\ lru_order[Len(lru_order)] = Ref(e)


\* the usage counter is above size_soft_limit even with nothing cached: the
\* soft limit is below the usage of the meta data plus the expired elements
\* that callers still hold
StaysAbove == size_soft_limit < BaseUsage + Cardinality(held)

\* no thread is inside insert / not_found
AllReturned == \A t \in CThreads : cpc[t] = "idle"

\* C38: while the usage cannot come down to size_soft_limit, the eviction
\* loop of insert / not_found does not leave at its test, so it leaves only
\* when expire finds nothing; once every insert / not_found has returned the
\* cache is empty, the entry just inserted included, and find returns Lost
\* for every id.
C38_EvictsNewEntry ==
    /\ (c_last.op = "evict_exit") => ~ StaysAbove
    /\ (StaysAbove /\ AllReturned) =>
          /\ cache_set = {}
          /\ lru_order = << >>
          /\ \A id \in CIds : find_result(cache_set, id) = "Lost"
    /\ (StaysAbove /\ AllReturned /\ c_last.op = "find") => c_last.result = "Lost"

\* the soft limit is below the usage of the meta data, nothing is held, and
\* the loop of the only running call has just evicted a real entry, which
\* insert had put, and left the cache empty
C38_Witness ==
    /\ size_soft_limit < BaseUsage
    /\ held = {}
    /\ c_last.op = "expire"
    /\ c_last.expired
    /\ c_last.loop
    /\ c_last.real
    /\ cache_set = {}
    /\ Cardinality({t \in CThreads : cpc[t] # "idle"}) = 1


\* C36: with max_write_queries >= 1 the batch never holds more than the put
\* of the call that is running, it is empty whenever the batch mutex is free,
\* and a WriteQuery is unfinished only while the put that made it is still
\* inside its flush, so every WriteQuery is finished when it is returned; a
\* batch that keeps a put after the mutex was released needs
\* max_write_queries = 0.
C36_NothingPending ==
    /\ max_write_queries >= 1 =>
          /\ write_batch.len_ <= 1
          /\ batch_lock = 0 => (write_batch.len_ = 0 /\ Pending = {})
          /\ \A i \in Pending :
                \E t \in KThreads : /\ kpc[t].pc = "put_flush"
                                    /\ batch_lock = t
                                    /\ wq[i].cell = write_batch.result
          /\ \A t \in KThreads : kpc[t].pc \notin {"wait_lock", "wait_flush"}
    /\ (batch_lock = 0 /\ write_batch.len_ > 0) => max_write_queries = 0

\* with max_write_queries = 1 two inserts have returned: both WriteQueries
\* are finished, the batch is empty and both stores hold the second write
C36_Witness ==
    /\ max_write_queries = 1
    /\ batch_lock = 0
    /\ Len(wq) = 2
    /\ \A i \in DOMAIN wq : /\ wq[i] # Dropped
                            /\ wq[i].kind = "insert"
                            /\ cells[wq[i].cell] = "Succeeded"
    /\ wq[1].cell # wq[2].cell
    /\ write_batch.len_ = 0
    /\ \E k \in KIds : db_intrinsic[k].src = wq[2].cell /\ db_extrinsic[k].src = wq[2].cell


\* C37: the batch mutex is held only by a thread inside a flush, which waits
\* for no other thread (the lock of a completion cell is taken and released
\* inside one step, with or without the batch mutex, and no step takes the
\* batch mutex inside it), and every thread inside insert, update or wait
\* returns.
C37_WritePathLive ==
    /\ [](\A t \in KThreads :
            /\ batch_lock = t => kpc[t].pc \in {"put_flush", "wait_flush"}
            /\ kpc[t].pc \in {"put_flush", "wait_flush"} => batch_lock = t)
    /\ [](batch_lock \in KThreads \cup {0})
    /\ \A t \in KThreads : (kpc[t].pc # "idle") ~> (kpc[t].pc = "idle")

\* one thread is inside the flush of its wait and holds the batch mutex while
\* the other is blocked in the lock() of its wait for an unfinished WriteQuery
C37_Witness ==
    /\ kpc[1].pc = "wait_flush"
    /\ batch_lock = 1
    /\ kpc[2].pc = "wait_lock"
    /\ ~ is_finished(cells, wq[kpc[2].q].cell)


\* the sum of the deltas of r among the first k entries of balances that are
\* deposits (sign = 1) or withdrawals (sign = -1)
RECURSIVE PartSum(_, _, _, _)
PartSum(balances, r, k, sign) ==
    IF k = 0 THEN 0
    ELSE (IF balances[k][1] = r /\ sign * balances[k][2] > 0 THEN balances[k][2] ELSE 0)
         + PartSum(balances, r, k - 1, sign)

\* the balance of r after all deposits of the call and its withdrawals among
\* the first k entries
PartBalance(before, balances, r, k) ==
    Stored(before, r) + PartSum(balances, r, Len(balances), 1) + PartSum(balances, r, k, -1)

\* the entries whose withdrawal finds less than it takes
Failing(before, balances) ==
    {k \in DOMAIN balances :
        balances[k][2] < 0 /\ PartBalance(before, balances, balances[k][1], k) < 0}

\* the table a failing call leaves: every deposit and the withdrawals before
\* the first failing one
AfterFailure(before, balances) ==
    LET k == CHOOSE x \in Failing(before, balances) :
                 \A y \in Failing(before, balances) : x <= y
    IN  [r \in {x \in RIds : PartBalance(before, balances, x, k - 1) > 0} |->
            PartBalance(before, balances, r, k - 1)]

\* the step is a call of update_balance that returns Err
IsFailedUpdate == rb_last' # rb_last /\ rb_last'.op = "update_balance" /\ ~ rb_last'.ok

\* C40: a call of update_balance that fails leaves the table with all its
\* deposits and the withdrawals before the failing one applied, inside a
\* transaction as well as outside; while no other update_balance is called
\* the table gets back the content it had before the call only by a rollback
\* or by the drop of the session with the transaction of the call open, and a
\* rollback of a transaction that the call began with gives exactly that
\* content.
C40_FailureNotAtomic ==
    /\ [][IsFailedUpdate =>
            /\ Failing(resources, rb_last'.balances) # {}
            /\ resources' = AfterFailure(resources, rb_last'.balances)]_vars
    /\ [][(/\ rb_last.op = "update_balance"
           /\ ~ rb_last.ok
           /\ rb_last' = rb_last
           /\ resources # rb_last.before
           /\ resources' = rb_last.before)
          => /\ rb_last.in_txn
             /\ is_transaction_ /\ ~ is_transaction_'
             /\ sql_txn = <<rb_last.before>>
             /\ \/ r_last' = Call("rollback", 1, "Ok")
                \/ r_last'.op = "drop"]_vars
    /\ [][(/\ rb_last.op = "update_balance"
           /\ ~ rb_last.ok
           /\ rb_last' = rb_last
           /\ rb_last.in_txn
           /\ sql_txn = <<rb_last.before>>
           /\ r_last' # r_last
           /\ r_last' = Call("rollback", 1, "Ok") \/ r_last'.op = "drop")
          => resources' = rb_last.before]_vars

\* a call made as the first of a transaction has failed after a deposit on
\* one ResourceId was applied, and the rollback of the transaction has given
\* the table the content of before the call
C40_Witness ==
    /\ rb_last.op = "update_balance"
    /\ ~ rb_last.ok
    /\ rb_last.in_txn
    /\ AfterFailure(rb_last.before, rb_last.balances) # rb_last.before
    /\ r_last = Call("rollback", 1, "Ok")
    /\ resources = rb_last.before


\* the threads blocked in Condvar::wait inside Sqlite3Session::new
Waiting == {t \in RThreads : rpc[t] = "waiting"}

\* C35 as stated: a thread blocked in master() / slave() eventually obtains
\* the session.
C35_AcquisitionLive ==
    \A t \in RThreads : (rpc[t] = "waiting") ~> (rpc[t] = "session")

\* C35, amended: no wake-up is lost (whenever the connection is free and
\* threads are blocked, one of them is notified and not yet run; a notified
\* thread does return from wait), the connection does not stay free while
\* threads are blocked, and a blocked thread obtains the session provided the
\* other threads eventually stop taking sessions.
C35_NoLostWakeup ==
    /\ []((session_owner = 0 /\ Waiting # {}) => (woken \cap Waiting # {}))
    /\ [](woken \subseteq Waiting)
    /\ \A t \in RThreads : (t \in woken) ~> (t \notin woken)
    /\ (session_owner = 0 /\ Waiting # {}) ~> (session_owner # 0)
    /\ \A t \in RThreads :
          (<>[](\A u \in RThreads \ {t} : r_last # Call("new", u, "Ok")))
              => ((rpc[t] = "waiting") ~> (rpc[t] = "session"))

\* the owner has dropped its session and notified the blocked thread, which
\* has not run yet: the connection is free
C35_Witness ==
    /\ session_owner = 0
    /\ rpc[1] = "none"
    /\ rpc[2] = "waiting"
    /\ woken = {2}

====
